---------------------------- MODULE Spec2Model ----------------------------
(***************************************************************************)
(* Model of the handler registry of privex.coin_handlers                   *)
(* (src/privex/coin_handlers/__init__.py): the catalog COIN_HANDLERS, the  *)
(* symbol index `handlers`, reload_handlers / add_handler, the toggles     *)
(* enable_handler / disable_handler and the six lookup accessors; of the   *)
(* configuration functions add_handler_coin, handler_has_coin and          *)
(* configure_coin (SpecCoins); of MemoryKeyStore (KeyStore.py,             *)
(* SpecKeyStore); and of the settings resolver BaseHandler.get_setting /   *)
(* BitcoinMixin._prep_settings (SpecResolver); of the managers             *)
(* GolosManager and MoneroManager with BaseManager.send_or_issue           *)
(* (SpecManager); of the loaders GolosLoader and MoneroLoader with the     *)
(* wallet sessions of MoneroMixin (SpecLoader), their _clean_tx on single  *)
(* records (SpecNormalizer) and BaseLoader.__init__ / GolosLoader.load     *)
(* (SpecLoad); and of the registry together with all the configuration     *)
(* functions, configure_handler included (SpecConfig).                     *)
(*                                                                         *)
(* Python dicts are modelled as functions over their key set; the two      *)
(* dicts whose insertion order the code iterates (COIN_HANDLERS, handlers) *)
(* are sequences of entries.  A Python exception is a value of the field   *)
(* `raised` of a call's outcome.                                           *)
(***************************************************************************)
EXTENDS Integers, Sequences, FiniteSets, TLC

VARIABLES
    COIN_HANDLERS,      \* the catalog: sequence of [name, conf], in dict insertion order
    handlers,           \* the index: sequence of [sym, loaders, managers], in dict insertion order
    handlers_loaded,    \* module flag handlers_loaded
    modules,            \* what import_module finds for each handler name (exports, reload hook)
    reloads,            \* number of reload_handlers calls completed so far (identity of instances)
    last,               \* trace of the latest reload_handlers call (hooks run, handlers that raised, ...)
    ret,                \* outcome of the latest call
    COIN_MAP,           \* the symbol catalog: symbol -> Coin
    COIND_RPC,          \* HANDLER_SETTINGS['COIND_RPC']: symbol -> dict of settings
    calls,              \* number of configuration calls made so far
    store,              \* MemoryKeyStore.store: the list of KeyPair objects
    environ,            \* os.environ: variable name -> value
    self,               \* a handler instance: allsettings, coin or coins, _settings
    backend,            \* the backend a manager talks to: accounts, balances, transfers broadcast
    STORE,              \* KeyStore.py __STORE: holds the key store under 'keystore' once one is set
    caller              \* the code that uses a loader: the scopes it entered, the generator it holds

vars == <<calls, COIN_HANDLERS, handlers, handlers_loaded, modules, reloads, last, ret,
          COIN_MAP, COIND_RPC, store, environ, self, backend, STORE, caller>>

\* the globals reload_handlers and the accessors work on
registry_vars == <<handlers, handlers_loaded, modules, reloads, last>>

\* the globals the configuration functions work on, besides COIN_HANDLERS
settings_vars == <<COIN_MAP, COIND_RPC, calls>>

\* the state of the key store
keystore_vars == <<store>>

\* a handler instance and the environment its settings are resolved in
resolver_vars == <<environ, self>>

\* the backend of a manager and the module dict that holds the key store
manager_vars == <<backend, STORE>>

\* what the registry functions, the configuration functions, the key store,
\* the settings resolver and the managers leave alone
outside_registry == <<settings_vars, keystore_vars, resolver_vars, manager_vars, caller>>
outside_settings == <<registry_vars, keystore_vars, resolver_vars, manager_vars, caller>>
outside_keystore == <<COIN_HANDLERS, registry_vars, settings_vars, resolver_vars, manager_vars,
                      caller>>
outside_resolver == <<COIN_HANDLERS, registry_vars, settings_vars, keystore_vars, manager_vars,
                      caller>>
outside_manager == <<COIN_HANDLERS, registry_vars, COIN_MAP, COIND_RPC, environ, caller>>
outside_loader == <<COIN_HANDLERS, registry_vars, COIN_MAP, COIND_RPC, environ, keystore_vars,
                    STORE>>

---------------------------------------------------------------------------
(* Bounds of the model                                                     *)

\* reload_handlers calls (explicit or automatic) in one run
MaxReloads == 2
\* handlers whose import / hook / constructor raises during one reload
MaxFaults == 1
\* calls of the configuration functions (add_handler_coin, handler_has_coin,
\* configure_coin) in one run
MaxCalls == 3
\* KeyPairs the key store holds
MaxKeys == 2
\* changes made to the settings map or the Coin of a handler instance
MaxChanges == 1

---------------------------------------------------------------------------
(* Strings: a symbol is a sequence of characters, str.upper() works per    *)
(* character.                                                              *)

UpperChar(c) ==
    CASE c = "b" -> "B"
      [] c = "t" -> "T"
      [] c = "c" -> "C"
      [] c = "e" -> "E"
      [] c = "s" -> "S"
      [] OTHER   -> c

upper(s) == [i \in 1..Len(s) |-> UpperChar(s[i])]

SYM_BTC   == <<"B", "T", "C">>
SYM_btc   == <<"b", "t", "c">>
SYM_GOLOS == <<"G", "O", "L", "O", "S">>
SYM_GBG   == <<"G", "B", "G">>

\* base.objects.Coin: only the symbol matters to the registry
Coin(symbol) == [symbol |-> symbol]

---------------------------------------------------------------------------
(* Dict helpers                                                            *)

EmptyDict == <<>>

\* dict.get(key, default)
dict_get(d, key, default) == IF key \in DOMAIN d THEN d[key] ELSE default

\* {**a, **b}
dict_merge(a, b) ==
    [k \in (DOMAIN a) \cup (DOMAIN b) |-> IF k \in DOMAIN b THEN b[k] ELSE a[k]]

\* BaseHandler.py line 12, BitcoinMixin.py line 52: a handler built without
\* settings; allsettings = {} and the class attribute _settings = {}
BareHandler == [allsettings |-> EmptyDict, _settings |-> EmptyDict]

\* no manager has connected to a backend
NoBackend == [accounts |-> {}]

\* no loader is in use: no scope entered, no generator held, load() not called
NoCaller == [scopes |-> 0, gen |-> <<>>, loaded |-> FALSE]

\* the catalog as an ordered dict
HandlerNamesOf(ch) == {ch[i].name : i \in 1..Len(ch)}
ConfOf(ch, name) == ch[CHOOSE i \in 1..Len(ch) : ch[i].name = name].conf

\* the index as an ordered dict
SymbolsOf(idx) == {idx[i].sym : i \in 1..Len(idx)}
EntryOf(idx, sym) == idx[CHOOSE i \in 1..Len(idx) : idx[i].sym = sym]

---------------------------------------------------------------------------
(* The environment of a reload: what each import / hook / constructor does *)

\* A fault names the first call made for a handler that raises, if any:
\* import_module (or the module's missing `exports`), the module's reload(),
\* or the constructor of the loader / manager class for the k-th coin.
NoFault == [at |-> "none", k |-> 0]

FaultsOf(conf) ==
    {NoFault, [at |-> "import", k |-> 0], [at |-> "reload", k |-> 0]}
        \cup {[at |-> t, k |-> k] : t \in {"loaders", "managers"}, k \in 1..Len(conf.coins)}

AllFaults(ch) == UNION {FaultsOf(ch[i].conf) : i \in 1..Len(ch)}

\* one fault per handler name, at most MaxFaults of them real; a handler a
\* plan does not name raises nothing
Plans(ch) ==
    {p \in [HandlerNamesOf(ch) -> AllFaults(ch)] :
        /\ \A n \in HandlerNamesOf(ch) : p[n] \in FaultsOf(ConfOf(ch, n))
        /\ Cardinality({n \in HandlerNamesOf(ch) : p[n] # NoFault}) <= MaxFaults}

---------------------------------------------------------------------------
(* add_handler and reload_handlers                                         *)

\* privex.helpers.is_false on the values the catalog holds for `enabled`
is_false(v) == v = FALSE

\* line 418-419: if sym not in handlers: handlers[sym] = dict(loaders=[], managers=[])
index_setdefault(idx, sym) ==
    IF sym \in SymbolsOf(idx) THEN idx
    ELSE Append(idx, [sym |-> sym, loaders |-> <<>>, managers |-> <<>>])

\* an append that files the instance twice
index_append_twice(idx, sym, handler_type, h) ==
    [i \in 1..Len(idx) |->
        IF idx[i].sym = sym THEN [idx[i] EXCEPT ![handler_type] = Append(Append(@, h), h)]
        ELSE idx[i]]

\* line 423: handlers[sym][handler_type].append(h)
index_append(idx, sym, handler_type, h) ==
    [i \in 1..Len(idx) |->
        IF idx[i].sym = sym THEN [idx[i] EXCEPT ![handler_type] = Append(@, h)] ELSE idx[i]]

\* a registry whose loaders are handed the handler's whole coin list
handler_kwargs_all_coins(conf, handler_type, coin) ==
    dict_merge(IF handler_type = "managers" THEN [k \in {"coin"} |-> coin]
                                            ELSE [k \in {"coins"} |-> conf.coins],
               dict_get(conf, "kwargs", EmptyDict))

\* lines 420-421: the keyword arguments the constructor is called with
handler_kwargs(conf, handler_type, coin) ==
    dict_merge(IF handler_type = "managers" THEN [k \in {"coin"} |-> coin]
                                            ELSE [k \in {"coins"} |-> <<coin>>],
               dict_get(conf, "kwargs", EmptyDict))

\* line 422: h = handler(settings=HANDLER_SETTINGS, **kwargs); the instance
\* remembers its class (handler name and role), its arguments and the reload
\* that made it
new_instance(name, handler_type, kwargs, gen) ==
    [handler |-> name, role |-> handler_type, kwargs |-> kwargs, born |-> gen]

\* what a hook or constructor running inside the reload can read of the
\* index, and whether that is still the index of before the reload
snapshot(idx, old) == [idx |-> idx, is_old |-> idx = old]

\* acc is the running state of a reload: the index being filled (idx), the
\* index of before the call (old), what each hook / constructor saw of the
\* index (observed), the handlers whose module was resolved (imported), the
\* hooks run, the handlers that raised (failed), and whether an exception is
\* in flight (raised).
observe(acc) == [acc EXCEPT !.observed = Append(@, snapshot(acc.idx, acc.old))]

raising(acc) == [acc EXCEPT !.raised = TRUE]

\* lines 417-419: sym = coin.symbol; the entry of sym exists before the constructor runs
enter_coin(acc, coin) == observe([acc EXCEPT !.idx = index_setdefault(@, coin.symbol)])

\* lines 420-423 for one coin, when the constructor returns
append_instance(acc, name, conf, handler_type, gen, coin) ==
    [acc EXCEPT !.idx = index_append(@, coin.symbol, handler_type,
                            new_instance(name, handler_type,
                                         handler_kwargs(conf, handler_type, coin), gen))]

\* lines 416-423, from the coin at position k on
RECURSIVE add_handler_from(_, _, _, _, _, _, _)
RECURSIVE construct(_, _, _, _, _, _, _)
construct(seen, name, conf, handler_type, gen, fault, k) ==
    IF fault.at = handler_type /\ fault.k = k
    THEN raising(seen)
    ELSE add_handler_from(append_instance(seen, name, conf, handler_type, gen, conf.coins[k]),
                          name, conf, handler_type, gen, fault, k + 1)

add_handler_from(acc, name, conf, handler_type, gen, fault, k) ==
    IF k > Len(conf.coins) THEN acc
    ELSE construct(enter_coin(acc, conf.coins[k]), name, conf, handler_type, gen, fault, k)

\* lines 406-423
add_handler(acc, name, conf, handler_type, gen, fault) ==
    add_handler_from(acc, name, conf, handler_type, gen, fault, 1)

\* a registry that runs the hook on the first load too
calls_reload_hook_always(loaded, mod) == mod.has_reload

\* line 446: if handlers_loaded and hasattr(i, 'reload')
calls_reload_hook(loaded, mod) == loaded /\ mod.has_reload

\* line 447: i.reload()
run_hook(acc, name) == observe([acc EXCEPT !.hooks = Append(@, name)])

\* lines 452-454, unless the loader's add_handler raised
add_manager(acc, name, conf, mod, gen, fault) ==
    IF acc.raised THEN acc
    ELSE IF "manager" \in mod.exports
         THEN add_handler(acc, name, conf, "managers", gen, fault)
         ELSE acc

\* lines 448-454: ex = i.exports; the loader class first, then the manager class
add_exports(acc, name, conf, mod, gen, fault) ==
    add_manager(IF "loader" \in mod.exports
                THEN add_handler(acc, name, conf, "loaders", gen, fault)
                ELSE acc,
                name, conf, mod, gen, fault)

\* lines 446-454, once import_module returned the module
after_import(acc, name, conf, mod, hook, gen, fault) ==
    IF hook /\ fault.at = "reload"
    THEN raising(run_hook(acc, name))
    ELSE add_exports(IF hook THEN run_hook(acc, name) ELSE acc, name, conf, mod, gen, fault)

\* lines 440-454: the body of the try block for one enabled handler
load_handler(acc, name, conf, mod, loaded, gen, fault) ==
    IF fault.at = "import"
    THEN raising(acc)
    ELSE after_import([acc EXCEPT !.imported = @ \cup {name}], name, conf, mod,
                      calls_reload_hook(loaded, mod), gen, fault)

\* lines 455-460: except: log, "Skipping this handler..."
except_all(r, name) ==
    IF r.raised THEN [r EXCEPT !.raised = FALSE, !.failed = @ \cup {name}] ELSE r

\* a loop without the try: the exception of a handler leaves it
try_handler_uncaught(acc, name, conf, mod, loaded, gen, fault) ==
    LET r == load_handler(acc, name, conf, mod, loaded, gen, fault)
    IN IF r.raised THEN [r EXCEPT !.failed = @ \cup {name}] ELSE r

\* lines 439-460: try: ... except: ...
try_handler(acc, name, conf, mod, loaded, gen, fault) ==
    except_all(load_handler(acc, name, conf, mod, loaded, gen, fault), name)

\* lines 436-460 for one catalog entry: a disabled handler is passed over
reload_entry(acc, entry, mods, loaded, gen, plan) ==
    IF is_false(dict_get(entry.conf, "enabled", TRUE))
    THEN acc
    ELSE try_handler(acc, entry.name, entry.conf, mods[entry.name], loaded, gen,
                     dict_get(plan, entry.name, NoFault))

\* lines 435-460: for ch, ch_data in COIN_HANDLERS.items(), from position i on;
\* an exception in flight ends the loop
RECURSIVE reload_loop(_, _, _, _, _, _, _)
RECURSIVE reload_next(_, _, _, _, _, _, _)
reload_next(r, ch, mods, loaded, gen, plan, i) ==
    IF r.raised THEN r ELSE reload_loop(r, ch, mods, loaded, gen, plan, i + 1)

reload_loop(acc, ch, mods, loaded, gen, plan, i) ==
    IF i > Len(ch) THEN acc
    ELSE reload_next(reload_entry(acc, ch[i], mods, loaded, gen, plan),
                     ch, mods, loaded, gen, plan, i)

\* a reload that keeps the old index and adds to it
kept_handlers(old) == old

\* line 432: handlers = {}
fresh_handlers(old) == <<>>

reload_start(old) ==
    [idx |-> fresh_handlers(old), old |-> old, observed |-> <<>>, imported |-> {},
     hooks |-> <<>>, failed |-> {}, raised |-> FALSE]

\* line 462 and the return: the globals after the call, and the trace of the call
reload_end(r, ch, loaded) ==
    [handlers |-> r.idx,
     handlers_loaded |-> IF r.raised THEN loaded ELSE TRUE,
     raised |-> IF r.raised THEN "Exception" ELSE "none",
     ran |-> 1,
     trace |-> [imported |-> r.imported, hooks |-> r.hooks, failed |-> r.failed,
                observed |-> r.observed, was_loaded |-> loaded, catalog |-> ch]]

\* lines 426-469
reload_handlers(ch, mods, loaded, old, gen, plan) ==
    reload_end(reload_loop(reload_start(old), ch, mods, loaded, gen, plan, 1), ch, loaded)

---------------------------------------------------------------------------
(* enable_handler / disable_handler                                        *)

\* COIN_HANDLERS[h]['enabled'] = v
set_enabled(ch, h, v) ==
    [i \in 1..Len(ch) |->
        IF ch[i].name = h
        THEN [ch[i] EXCEPT !.conf = dict_merge(@, [k \in {"enabled"} |-> v])]
        ELSE ch[i]]

\* lines 235-241: unknown names are passed over
RECURSIVE disable_handler(_, _)
disable_handler(ch, hs) ==
    IF hs = <<>> THEN [catalog |-> ch, raised |-> "none"]
    ELSE disable_handler(IF Head(hs) \in HandlerNamesOf(ch)
                         THEN set_enabled(ch, Head(hs), FALSE) ELSE ch,
                         Tail(hs))

\* lines 244-253: the first unknown name raises, the names before it stay enabled
RECURSIVE enable_handler(_, _)
enable_handler(ch, hs) ==
    IF hs = <<>> THEN [catalog |-> ch, raised |-> "none"]
    ELSE IF Head(hs) \notin HandlerNamesOf(ch)
         THEN [catalog |-> ch, raised |-> "HandlerNotFound"]
         ELSE enable_handler(set_enabled(ch, Head(hs), TRUE), Tail(hs))

---------------------------------------------------------------------------
(* The lookup accessors, after their automatic reload                      *)

\* the argument symbol=None of get_loaders / get_managers
None == <<"None">>
NoValue == "NoValue"

Returns(v) == [raised |-> "none", value |-> v]
Raises(e) == [raised |-> e, value |-> NoValue]

\* an accessor that reloads on every call
auto_reload_always(ch, mods, loaded, old, gen, plan, trace) ==
    reload_handlers(ch, mods, loaded, old, gen, plan)

\* lines 350, 356, 362, 374, 388, 402: if not handlers_loaded: reload_handlers()
auto_reload(ch, mods, loaded, old, gen, plan, trace) ==
    IF ~loaded
    THEN reload_handlers(ch, mods, loaded, old, gen, plan)
    ELSE [handlers |-> old, handlers_loaded |-> loaded, raised |-> "none", ran |-> 0,
          trace |-> trace]

\* line 351
get_loaders(idx, symbol) ==
    IF symbol = None
    THEN Returns([i \in 1..Len(idx) |-> <<idx[i].sym, idx[i].loaders>>])
    ELSE IF symbol \in SymbolsOf(idx)
         THEN Returns(EntryOf(idx, symbol).loaders)
         ELSE Raises("KeyError")

\* line 375
get_managers(idx, symbol) ==
    IF symbol = None
    THEN Returns([i \in 1..Len(idx) |-> <<idx[i].sym, idx[i].managers>>])
    ELSE IF symbol \in SymbolsOf(idx)
         THEN Returns(EntryOf(idx, symbol).managers)
         ELSE Raises("KeyError")

\* line 357: symbol.upper() in handlers and len(handlers[symbol].get('managers', [])) > 0
has_manager(idx, symbol) ==
    IF upper(symbol) \notin SymbolsOf(idx) THEN Returns(FALSE)
    ELSE IF symbol \notin SymbolsOf(idx) THEN Raises("KeyError")
    ELSE Returns(Len(EntryOf(idx, symbol).managers) > 0)

\* line 363
has_loader(idx, symbol) ==
    IF upper(symbol) \notin SymbolsOf(idx) THEN Returns(FALSE)
    ELSE IF symbol \notin SymbolsOf(idx) THEN Raises("KeyError")
    ELSE Returns(Len(EntryOf(idx, symbol).loaders) > 0)

\* a get_manager that upper-cases the symbol before the lookup
get_manager_upper(idx, symbol) ==
    IF upper(symbol) \notin SymbolsOf(idx) THEN Raises("KeyError")
    ELSE IF EntryOf(idx, upper(symbol)).managers = <<>> THEN Raises("IndexError")
    ELSE Returns(EntryOf(idx, upper(symbol)).managers[1])

\* line 389: handlers[symbol]['managers'][0]
get_manager(idx, symbol) ==
    IF symbol \notin SymbolsOf(idx) THEN Raises("KeyError")
    ELSE IF EntryOf(idx, symbol).managers = <<>> THEN Raises("IndexError")
    ELSE Returns(EntryOf(idx, symbol).managers[1])

\* line 403: handlers[symbol]['loaders'][0]
get_loader(idx, symbol) ==
    IF symbol \notin SymbolsOf(idx) THEN Raises("KeyError")
    ELSE IF EntryOf(idx, symbol).loaders = <<>> THEN Raises("IndexError")
    ELSE Returns(EntryOf(idx, symbol).loaders[1])

lookup(op, idx, symbol) ==
    CASE op = "get_loaders"  -> get_loaders(idx, symbol)
      [] op = "get_managers" -> get_managers(idx, symbol)
      [] op = "has_manager"  -> has_manager(idx, symbol)
      [] op = "has_loader"   -> has_loader(idx, symbol)
      [] op = "get_manager"  -> get_manager(idx, symbol)
      [] op = "get_loader"   -> get_loader(idx, symbol)

---------------------------------------------------------------------------
(* The state machine                                                       *)

\* the argument tuples enable_handler / disable_handler are called with:
\* names of the catalog, and one that is not in it
ArgTuples == {<<"Bitcoin">>, <<"Golos">>, <<"Steem">>, <<"Golos", "Steem", "Bitcoin">>}

\* symbols the accessors are called with
QuerySyms == {SYM_BTC, SYM_btc, SYM_GOLOS}

\* The catalog as configured by the application before any lookup, in the
\* layout of the module's own COIN_HANDLERS (lines 164-194) and of its
\* docstring (lines 11-16, an entry holding only `coins`).
InitCatalog ==
    << [name |-> "Bitcoin",
        conf |-> [enabled |-> FALSE, coins |-> <<Coin(SYM_BTC)>>,
                  kwargs |-> [k \in {"coin"} |-> Coin(SYM_GBG)]]],
       [name |-> "Golos",
        conf |-> [enabled |-> TRUE, coins |-> <<Coin(SYM_GOLOS), Coin(SYM_btc)>>,
                  kwargs |-> [k \in {"example"} |-> "hello"]]],
       [name |-> "Telos",
        conf |-> [coins |-> <<Coin(SYM_BTC)>>]] >>

\* Bitcoin/__init__.py and Golos/__init__.py export a loader and a manager
\* and define reload(); reload_handlers tests the two exports separately
\* (lines 449, 452), so a package may export a loader alone and define no
\* reload(): Telos, whose directory holds TelosLoader.py alone, stands for it.
InitModules ==
    [n \in {"Bitcoin", "Golos", "Telos"} |->
        IF n = "Telos" THEN [exports |-> {"loader"}, has_reload |-> FALSE]
                       ELSE [exports |-> {"loader", "manager"}, has_reload |-> TRUE]]

\* a Coin object of the catalog: its identity (oid), its symbol, and one
\* more of its attributes
CoinObj(oid, symbol) == [oid |-> oid, symbol |-> symbol, can_issue |-> FALSE]

\* lines 154-161: COIN_MAP, here with two of its symbols
InitCoinMap ==
    [s \in {SYM_BTC, SYM_GOLOS} |-> IF s = SYM_BTC THEN CoinObj(1, SYM_BTC)
                                                   ELSE CoinObj(2, SYM_GOLOS)]

\* lines 128-134: HANDLER_SETTINGS['COIND_RPC'] = {'BTC': {}}
InitRpc == [s \in {SYM_BTC} |-> EmptyDict]

NoTrace == [imported |-> {}, hooks |-> <<>>, failed |-> {}, observed |-> <<>>,
            was_loaded |-> FALSE, catalog |-> <<>>]

NoPlan == [n \in {} |-> NoFault]

Ret(op, symbol, out, ran, was_loaded) ==
    [op |-> op, symbol |-> symbol, raised |-> out.raised, value |-> out.value,
     ran |-> ran, was_loaded |-> was_loaded]

Init ==
    /\ COIN_HANDLERS = InitCatalog
    /\ handlers = <<>>
    /\ handlers_loaded = FALSE
    /\ modules = InitModules
    /\ reloads = 0
    /\ last = NoTrace
    /\ ret = Ret("import", None, Returns(NoValue), 0, FALSE)
    /\ COIN_MAP = InitCoinMap
    /\ COIND_RPC = InitRpc
    /\ calls = 0
    /\ store = <<>>
    /\ environ = EmptyDict
    /\ self = BareHandler
    /\ backend = NoBackend
    /\ caller = NoCaller
    /\ STORE = EmptyDict

EnableHandler ==
    \E hs \in ArgTuples :
        LET r == enable_handler(COIN_HANDLERS, hs)
        IN /\ COIN_HANDLERS' = r.catalog
           /\ ret' = Ret("enable_handler", None, [raised |-> r.raised, value |-> NoValue],
                         0, handlers_loaded)
           /\ UNCHANGED <<handlers, handlers_loaded, modules, reloads, last, outside_registry>>

DisableHandler ==
    \E hs \in ArgTuples :
        LET r == disable_handler(COIN_HANDLERS, hs)
        IN /\ COIN_HANDLERS' = r.catalog
           /\ ret' = Ret("disable_handler", None, [raised |-> r.raised, value |-> NoValue],
                         0, handlers_loaded)
           /\ UNCHANGED <<handlers, handlers_loaded, modules, reloads, last, outside_registry>>

\* the globals and the outcome after a call that ran reload_handlers (r)
ReloadEffect(op, symbol, r, out) ==
    /\ handlers' = r.handlers
    /\ handlers_loaded' = r.handlers_loaded
    /\ reloads' = reloads + r.ran
    /\ last' = r.trace
    /\ ret' = Ret(op, symbol, out, r.ran, handlers_loaded)
    /\ UNCHANGED <<COIN_HANDLERS, modules, outside_registry>>

ReloadReturn(r) ==
    ReloadEffect("reload_handlers", None, r, [raised |-> r.raised, value |-> NoValue])

ReloadHandlers ==
    /\ reloads < MaxReloads
    /\ \E plan \in Plans(COIN_HANDLERS) :
        ReloadReturn(reload_handlers(COIN_HANDLERS, modules, handlers_loaded, handlers,
                                     reloads + 1, plan))

\* an accessor's outcome once its automatic reload is over
after_reload(op, symbol, r) ==
    IF r.raised # "none" THEN Raises(r.raised) ELSE lookup(op, r.handlers, symbol)

AccessorReturn(op, symbol, r) == ReloadEffect(op, symbol, r, after_reload(op, symbol, r))

\* one accessor call: the automatic reload, then the lookup
Accessor(op, symbol) ==
    /\ reloads < MaxReloads \/ handlers_loaded
    /\ \E plan \in (IF handlers_loaded THEN {NoPlan} ELSE Plans(COIN_HANDLERS)) :
        AccessorReturn(op, symbol,
                       auto_reload(COIN_HANDLERS, modules, handlers_loaded, handlers,
                                   reloads + 1, plan, last))

GetLoaders  == \E s \in QuerySyms \cup {None} : Accessor("get_loaders", s)
GetManagers == \E s \in QuerySyms \cup {None} : Accessor("get_managers", s)
HasManager  == \E s \in QuerySyms : Accessor("has_manager", s)
HasLoader   == \E s \in QuerySyms : Accessor("has_loader", s)
GetManager  == \E s \in QuerySyms : Accessor("get_manager", s)
GetLoader   == \E s \in QuerySyms : Accessor("get_loader", s)

Next ==
    \/ EnableHandler
    \/ DisableHandler
    \/ ReloadHandlers
    \/ GetLoaders
    \/ GetManagers
    \/ HasManager
    \/ HasLoader
    \/ GetManager
    \/ GetLoader

Spec == Init /\ [][Next]_vars

---------------------------------------------------------------------------
(* Vocabulary of the properties                                            *)

AccessorOps == {"get_loaders", "get_managers", "has_manager", "has_loader",
                "get_manager", "get_loader"}

\* the latest call ran reload_handlers: the index is the one it built from
\* the catalog as it stands
AfterReload == ret.ran = 1

Enabled(conf) == ~is_false(dict_get(conf, "enabled", TRUE))

Entries == {COIN_HANDLERS[i] : i \in 1..Len(COIN_HANDLERS)}

\* the handlers the latest reload went through without an exception
Loaded == {e \in Entries : Enabled(e.conf) /\ e.name \notin last.failed}

\* the instances a list of the index holds for a handler
Of(list, name) == {j \in 1..Len(list) : list[j].handler = name}

\* every instance of an index, with the symbol and list it is filed under
Filed(idx) ==
    UNION {{[sym |-> idx[i].sym, role |-> role, inst |-> idx[i][role][j]] :
                j \in 1..Len(idx[i][role])} :
           <<i, role>> \in (1..Len(idx)) \X {"loaders", "managers"}}

Export(role) == IF role = "loaders" THEN "loader" ELSE "manager"

IsPrefix(a, b) == Len(a) <= Len(b) /\ \A j \in 1..Len(a) : a[j] = b[j]

---------------------------------------------------------------------------
(* C1: when a handler raises during reload_handlers (resolving its module, *)
(* its reload hook, or a constructor), the call does not raise, the        *)
(* registry is marked loaded, and every other enabled handler, before or   *)
(* after the failing one, has an instance of each class it exports filed   *)
(* under the symbol of each of its coins.                                  *)
C1_FailureIsolated ==
    (AfterReload /\ last.failed # {}) =>
        /\ ret.raised # "Exception"
        /\ handlers_loaded
        /\ \A e \in Loaded : \A k \in 1..Len(e.conf.coins) :
            \A role \in {"loaders", "managers"} :
                Export(role) \in modules[e.name].exports =>
                    /\ e.conf.coins[k].symbol \in SymbolsOf(handlers)
                    /\ \E j \in Of(EntryOf(handlers, e.conf.coins[k].symbol)[role], e.name) :
                          EntryOf(handlers, e.conf.coins[k].symbol)[role][j].born = reloads

\* Golos, the second of three enabled handlers, raised; Bitcoin before it
\* and Telos after it are indexed
C1_Witness ==
    /\ ret.op = "reload_handlers"
    /\ AfterReload
    /\ last.failed = {"Golos"}
    /\ {e.name : e \in Loaded} = {"Bitcoin", "Telos"}
    /\ Of(EntryOf(handlers, SYM_BTC).loaders, "Bitcoin") # {}
    /\ Of(EntryOf(handlers, SYM_BTC).loaders, "Telos") # {}

(* C2: a handler that raised during the reload is skipped entirely: the    *)
(* index holds no instance made for it, and a symbol only it covers has no *)
(* entry.                                                                  *)
C2_FailedHandlerLeavesNothing ==
    AfterReload =>
        /\ \A f \in Filed(handlers) : f.inst.handler \notin last.failed
        /\ \A i \in 1..Len(handlers) :
              \E e \in Loaded : \E k \in 1..Len(e.conf.coins) :
                  e.conf.coins[k].symbol = handlers[i].sym

(* C3 as claimed: whatever a reload hook or a constructor running inside   *)
(* reload_handlers reads of the index is the complete index of before the  *)
(* call or the complete index the call ends with.                          *)
C3_AllOrNothingSwap ==
    AfterReload =>
        \A i \in 1..Len(last.observed) :
            last.observed[i].is_old \/ last.observed[i].idx = handlers

(* C3 as amended: reload_handlers empties the index and fills it in place. *)
(* What a hook or constructor inside the call reads holds no instance of   *)
(* an earlier reload, and is a part of the index the call ends with: each  *)
(* entry it holds is an entry of the final index, its lists prefixes of    *)
(* the final lists.                                                        *)
C3_FilledInPlace ==
    AfterReload =>
        \A i \in 1..Len(last.observed) :
            LET seen == last.observed[i].idx
            IN /\ \A f \in Filed(seen) : f.inst.born = reloads
               /\ Len(seen) <= Len(handlers)
               /\ \A j \in 1..Len(seen) :
                     /\ seen[j].sym = handlers[j].sym
                     /\ IsPrefix(seen[j].loaders, handlers[j].loaders)
                     /\ IsPrefix(seen[j].managers, handlers[j].managers)

\* inside a second reload, a constructor read an index that is neither the
\* one of before the call nor the complete new one
C3_Witness ==
    /\ AfterReload
    /\ last.was_loaded
    /\ \E i \in 1..Len(last.observed) :
          /\ ~last.observed[i].is_old
          /\ last.observed[i].idx # handlers
          /\ last.observed[i].idx # <<>>

\* the handlers that alone cover the symbol in the catalog of the latest reload
SoleOwners(symbol) ==
    {e \in Entries :
        /\ \E k \in 1..Len(e.conf.coins) : e.conf.coins[k].symbol = symbol
        /\ \A o \in Entries \ {e} :
              \A k \in 1..Len(o.conf.coins) : o.conf.coins[k].symbol # symbol}

(* C4: for a handler H that loads and a symbol S only H covers: once H is  *)
(* disabled and the registry reloaded, has_loader(S) and has_manager(S)    *)
(* are false; once H is enabled and the registry reloaded, both are true.  *)
(* Stated of the runs in which no handler raised in the latest reload, and *)
(* of an index built from the catalog as it stands.                        *)
C4_ToggleThenReload ==
    (/\ ret.op \in {"has_loader", "has_manager"}
     /\ last.failed = {}
     /\ last.catalog = COIN_HANDLERS) =>
        \A e \in SoleOwners(ret.symbol) :
            modules[e.name].exports = {"loader", "manager"} =>
                /\ ret.raised = "none"
                /\ ret.value = Enabled(e.conf)

\* whether the index holds an instance of the role for the symbol
Holds(idx, symbol, role) ==
    symbol \in SymbolsOf(idx) /\ EntryOf(idx, symbol)[role] # <<>>

(* C5: has_loader(S) and has_manager(S) never raise; they return a boolean,*)
(* and false whenever the index holds no Loader (Manager) for S.           *)
C5_HasNeverRaises ==
    ret.op \in {"has_loader", "has_manager"} =>
        /\ ret.raised = "none"
        /\ ret.value \in BOOLEAN
        /\ ~Holds(handlers, ret.symbol,
                  IF ret.op = "has_loader" THEN "loaders" ELSE "managers") => ret.value = FALSE

GetRole == IF ret.op = "get_loader" THEN "loaders" ELSE "managers"

(* C6 as claimed: get_loader(S) / get_manager(S) raise KeyError whenever   *)
(* the index holds no Loader / Manager for S, be it for want of an entry   *)
(* or for an empty list; no other error; never an instance of another      *)
(* symbol.  Stated of the runs in which no handler raised in the latest    *)
(* reload, so that every empty list is one a loader-only module leaves.    *)
C6_MissingIsKeyError ==
    (ret.op \in {"get_loader", "get_manager"} /\ last.failed = {}) =>
        /\ ret.raised \in {"none", "KeyError"}
        /\ ~Holds(handlers, ret.symbol, GetRole) => ret.raised = "KeyError"
        /\ ret.raised = "none" =>
              [sym |-> ret.symbol, role |-> GetRole, inst |-> ret.value] \in Filed(handlers)

(* C6 as amended: get_loader(S) / get_manager(S) raise KeyError exactly    *)
(* when S has no entry in the index, and IndexError exactly when S has an  *)
(* entry whose loader / manager list is empty; otherwise they return the   *)
(* first instance of that list of S, never one of another symbol.          *)
C6_KeyErrorOrIndexError ==
    ret.op \in {"get_loader", "get_manager"} =>
        /\ ret.raised = "KeyError" <=> ret.symbol \notin SymbolsOf(handlers)
        /\ ret.raised = "IndexError" <=>
              (ret.symbol \in SymbolsOf(handlers) /\ ~Holds(handlers, ret.symbol, GetRole))
        /\ ret.raised = "none" <=> Holds(handlers, ret.symbol, GetRole)
        /\ ret.raised = "none" => ret.value = EntryOf(handlers, ret.symbol)[GetRole][1]

\* get_manager on a symbol that only a loader-exporting handler covers
C6_Witness ==
    /\ ret.op = "get_manager"
    /\ ret.raised = "IndexError"
    /\ last.failed = {}
    /\ EntryOf(handlers, ret.symbol).loaders # <<>>

(* C7: an accessor called before any reload has completed runs exactly one *)
(* reload_handlers and looks up in the index it built; once a reload has   *)
(* completed, the loaded flag is true for good and no accessor reloads.    *)
C7_AutoReloadOnce ==
    /\ reloads > 0 => handlers_loaded
    /\ ret.op \in AccessorOps =>
          /\ ret.ran = (IF ret.was_loaded THEN 0 ELSE 1)
          /\ handlers_loaded
          /\ [raised |-> ret.raised, value |-> ret.value]
                = lookup(ret.op, handlers, ret.symbol)

\* the first call of the run is an accessor, which reloads and finds a loader
C7_Witness ==
    /\ ret.op = "get_loader"
    /\ ~ret.was_loaded
    /\ ret.ran = 1
    /\ reloads = 1
    /\ ret.raised = "none"

(* C8: reload_handlers rebuilds the index from scratch.  In every state    *)
(* each instance the index holds was made by the latest reload, and after  *)
(* a reload, for every enabled handler that went through without an        *)
(* exception and exports both classes, the entry of each of its coins      *)
(* holds exactly one Loader and exactly one Manager made for it.           *)
C8_RebuiltFromScratch ==
    /\ \A f \in Filed(handlers) : f.inst.born = reloads
    /\ AfterReload =>
          \A e \in Loaded : modules[e.name].exports = {"loader", "manager"} =>
              \A k \in 1..Len(e.conf.coins) : \A role \in {"loaders", "managers"} :
                  /\ e.conf.coins[k].symbol \in SymbolsOf(handlers)
                  /\ Cardinality(Of(EntryOf(handlers, e.conf.coins[k].symbol)[role],
                                    e.name)) = 1

\* a second reload with Bitcoin and Golos enabled: BTC holds the loaders of
\* Bitcoin and Telos, one each, all made by the second reload
C8_Witness ==
    /\ AfterReload
    /\ reloads = 2
    /\ last.failed = {}
    /\ {e.name : e \in Loaded} = {"Bitcoin", "Golos", "Telos"}
    /\ Len(EntryOf(handlers, SYM_BTC).loaders) = 2
    /\ Len(EntryOf(handlers, SYM_BTC).managers) = 1
    /\ Len(EntryOf(handlers, SYM_GOLOS).loaders) = 1

\* the catalog's extra kwargs of the handler an instance was made for
ExtraKwargs(inst) == dict_get(ConfOf(COIN_HANDLERS, inst.handler), "kwargs", EmptyDict)

(* C9 as claimed: each Loader receives the full coin list of its handler   *)
(* as `coins`, each Manager the single coin it is indexed under as `coin`  *)
(* (where the handler's extra kwargs do not themselves name `coin`), and   *)
(* both the handler's extra kwargs.                                        *)
C9_LoaderGetsAllCoins ==
    \A f \in Filed(handlers) :
        /\ f.role = "loaders" =>
              f.inst.kwargs.coins = ConfOf(COIN_HANDLERS, f.inst.handler).coins
        /\ (f.role = "managers" /\ "coin" \notin DOMAIN ExtraKwargs(f.inst)) =>
              f.inst.kwargs.coin = Coin(f.sym)
        /\ \A x \in DOMAIN ExtraKwargs(f.inst) : f.inst.kwargs[x] = ExtraKwargs(f.inst)[x]

(* C9 as amended: add_handler makes one Loader and one Manager per coin.   *)
(* A Loader receives as `coins` the one-element list of the coin it is     *)
(* indexed under, a Manager receives that coin as `coin`, each a coin of   *)
(* the handler's list; both receive every extra kwarg of the handler, and  *)
(* an extra kwarg named `coins` / `coin` replaces the registry's value.    *)
C9_OneCoinPerInstance ==
    \A f \in Filed(handlers) :
        /\ f.inst.role = f.role
        /\ \E k \in 1..Len(ConfOf(COIN_HANDLERS, f.inst.handler).coins) :
              ConfOf(COIN_HANDLERS, f.inst.handler).coins[k] = Coin(f.sym)
        /\ DOMAIN f.inst.kwargs =
              DOMAIN ExtraKwargs(f.inst) \cup (IF f.role = "loaders" THEN {"coins"} ELSE {"coin"})
        /\ \A x \in DOMAIN ExtraKwargs(f.inst) : f.inst.kwargs[x] = ExtraKwargs(f.inst)[x]
        /\ (f.role = "loaders" /\ "coins" \notin DOMAIN ExtraKwargs(f.inst)) =>
              f.inst.kwargs.coins = <<Coin(f.sym)>>
        /\ (f.role = "managers" /\ "coin" \notin DOMAIN ExtraKwargs(f.inst)) =>
              f.inst.kwargs.coin = Coin(f.sym)

\* the loader of Golos filed under GOLOS was handed GOLOS alone, though
\* Golos covers two coins; the manager of Bitcoin filed under BTC was handed
\* the coin its extra kwargs name
C9_Witness ==
    /\ last.failed = {}
    /\ \E f \in Filed(handlers) :
          /\ f.inst.handler = "Golos" /\ f.role = "loaders" /\ f.sym = SYM_GOLOS
          /\ f.inst.kwargs.coins = <<Coin(SYM_GOLOS)>>
          /\ Len(ConfOf(COIN_HANDLERS, "Golos").coins) = 2
          /\ f.inst.kwargs.example = "hello"
    /\ \E f \in Filed(handlers) :
          /\ f.inst.handler = "Bitcoin" /\ f.role = "managers" /\ f.sym = SYM_BTC
          /\ f.inst.kwargs.coin = Coin(SYM_GBG)

\* the catalog entries whose hook a re-reload runs: enabled, module
\* resolved, module defines reload()
HookDue(e) ==
    Enabled(e.conf) /\ e.name \in last.imported /\ modules[e.name].has_reload

HooksDue == [i \in 1..Len(SelectSeq(COIN_HANDLERS, HookDue)) |->
                SelectSeq(COIN_HANDLERS, HookDue)[i].name]

(* C10: reload_handlers runs a handler module's reload hook exactly when a *)
(* reload_handlers call has completed before: the first reload runs no     *)
(* hook; every later reload runs, once each and in catalog order, the hook *)
(* of every enabled handler whose module was resolved and defines one; the *)
(* hook of a disabled handler is never run.                                *)
C10_HookOnlyOnReReload ==
    AfterReload =>
        /\ last.was_loaded = (reloads > 1)
        /\ last.hooks = (IF last.was_loaded THEN HooksDue ELSE <<>>)
        /\ \A i \in 1..Len(last.hooks) : Enabled(ConfOf(COIN_HANDLERS, last.hooks[i]))

\* a second reload with Bitcoin disabled: the hook of Golos ran, that of
\* Bitcoin did not
C10_Witness ==
    /\ AfterReload
    /\ last.was_loaded
    /\ last.failed = {}
    /\ ~Enabled(ConfOf(COIN_HANDLERS, "Bitcoin"))
    /\ modules["Bitcoin"].has_reload
    /\ last.hooks = <<"Golos">>

---------------------------------------------------------------------------
(* Configuring the catalog: _handler, handler_has_coin, add_handler_coin   *)
(* and configure_coin                                                      *)

SYM_XMR == <<"X", "M", "R">>
SYM_DOGE == <<"D", "O", "G", "E">>

\* the attributes hasattr() finds on a Coin (base.objects.Coin and its
\* `settings` property)
CoinAttrs ==
    {"symbol", "symbol_id", "coin_type", "our_account", "can_issue", "display_name",
     "setting_host", "setting_port", "setting_user", "setting_pass", "setting_json",
     "settings", "base_keys"}

\* a _handler that creates the missing entry switched off
handler_setdefault_disabled(ch, handler) ==
    IF handler \in HandlerNamesOf(ch) THEN ch
    ELSE Append(ch, [name |-> handler, conf |-> [enabled |-> FALSE, coins |-> <<>>]])

\* lines 227-228: if handler not in COIN_HANDLERS: COIN_HANDLERS[handler] = dict(enabled=True, coins=[])
handler_setdefault(ch, handler) ==
    IF handler \in HandlerNamesOf(ch) THEN ch
    ELSE Append(ch, [name |-> handler, conf |-> [enabled |-> TRUE, coins |-> <<>>]])

\* lines 230-231: if 'coins' not in ch: ch['coins'] = []
coins_setdefault(ch, handler) ==
    [i \in 1..Len(ch) |->
        IF ch[i].name = handler /\ "coins" \notin DOMAIN ch[i].conf
        THEN [ch[i] EXCEPT !.conf = dict_merge(@, [k \in {"coins"} |-> <<>>])]
        ELSE ch[i]]

\* lines 221-232: the catalog once _handler(handler) returned
_handler(ch, handler) == coins_setdefault(handler_setdefault(ch, handler), handler)

\* a comparison of symbols as they are written
same_symbol_exact(a, b) == a = b

\* line 307: coin.symbol.upper() == symbol.upper()
same_symbol(a, b) == upper(a) = upper(b)

\* a handler_has_coin that finds nothing
has_coin_never(coins, symbol) == FALSE

\* lines 306-309
has_coin(coins, symbol) == \E j \in 1..Len(coins) : same_symbol(coins[j].symbol, symbol)

\* lines 303-309: _handler creates what is missing, then the list is searched
handler_has_coin(ch, handler, symbol) ==
    [catalog |-> _handler(ch, handler),
     value |-> has_coin(ConfOf(_handler(ch, handler), handler).coins, symbol)]

\* lines 335-336: ch['coins'].append(coin)
append_coin(ch, handler, coin) ==
    [i \in 1..Len(ch) |->
        IF ch[i].name = handler THEN [ch[i] EXCEPT !.conf.coins = Append(@, coin)] ELSE ch[i]]

\* lines 337-338: if coin.symbol not in COIN_MAP: COIN_MAP[coin.symbol] = coin
map_setdefault(cmap, coin) ==
    IF coin.symbol \in DOMAIN cmap THEN cmap
    ELSE [s \in DOMAIN cmap \cup {coin.symbol} |-> IF s = coin.symbol THEN coin ELSE cmap[s]]

\* lines 331-339, for the Coin the argument resolved to; `has` is the
\* outcome of handler_has_coin
add_resolved(has, cmap, handler, coin) ==
    IF has.value
    THEN [catalog |-> has.catalog, cmap |-> cmap, raised |-> "none", value |-> FALSE]
    ELSE [catalog |-> append_coin(has.catalog, handler, coin),
          cmap |-> map_setdefault(cmap, coin), raised |-> "none", value |-> TRUE]

\* lines 326-330: a str is upper-cased and looked up in COIN_MAP
resolve_symbol(ch, cmap, handler, sym) ==
    IF sym \notin DOMAIN cmap
    THEN [catalog |-> ch, cmap |-> cmap, raised |-> "TokenNotFound", value |-> NoValue]
    ELSE add_resolved(handler_has_coin(ch, handler, cmap[sym].symbol), cmap, handler, cmap[sym])

\* lines 312-339; the argument is a Coin ([kind |-> "Coin", coin]) or a str
\* ([kind |-> "str", sym])
add_handler_coin(ch, cmap, handler, arg) ==
    IF arg.kind = "str"
    THEN resolve_symbol(ch, cmap, handler, upper(arg.sym))
    ELSE add_resolved(handler_has_coin(ch, handler, arg.coin.symbol), cmap, handler, arg.coin)

\* lines 280-283: setattr(COIN_MAP[symbol], k, v) for the options that name
\* an attribute of the Coin
set_attrs(coin, opts) ==
    [a \in DOMAIN coin |-> IF a \in DOMAIN opts /\ a \in CoinAttrs THEN opts[a] ELSE coin[a]]

\* the same object seen through another reference
seen_through(coin, target, opts) ==
    IF coin.oid = target.oid THEN set_attrs(coin, opts) ELSE coin

\* the catalog's coin lists hold the objects of COIN_MAP themselves
catalog_through(ch, target, opts) ==
    [i \in 1..Len(ch) |->
        IF "coins" \in DOMAIN ch[i].conf
        THEN [ch[i] EXCEPT !.conf.coins =
                  [j \in 1..Len(@) |-> seen_through(@[j], target, opts)]]
        ELSE ch[i]]

\* a configure_coin whose options replace the entry
rpc_replace(rpc, symbol, opts) ==
    [s \in DOMAIN rpc \cup {symbol} |-> IF s = symbol THEN opts ELSE rpc[s]]

\* lines 276-278: c_rpc[symbol] = {**c_rpc[symbol], **config_opts}, the entry
\* created when absent
rpc_merge(rpc, symbol, opts) ==
    [s \in DOMAIN rpc \cup {symbol} |->
        IF s = symbol THEN dict_merge(dict_get(rpc, symbol, EmptyDict), opts) ELSE rpc[s]]

\* lines 275-285, for the upper-cased symbol (line 273)
configure_upper(rpc, cmap, ch, symbol, opts) ==
    [rpc |-> rpc_merge(rpc, symbol, opts),
     cmap |-> IF symbol \in DOMAIN cmap
              THEN [s \in DOMAIN cmap |-> seen_through(cmap[s], cmap[symbol], opts)]
              ELSE cmap,
     catalog |-> IF symbol \in DOMAIN cmap THEN catalog_through(ch, cmap[symbol], opts) ELSE ch,
     raised |-> "none",
     value |-> rpc_merge(rpc, symbol, opts)[symbol]]

\* lines 256-285
configure_coin(rpc, cmap, ch, symbol, opts) == configure_upper(rpc, cmap, ch, upper(symbol), opts)

\* the handler names the configuration functions are called with: two of
\* the catalog, one that is not in it
CoinHandlerArgs == {"Bitcoin", "Monero", "Doge"}

\* Coin objects the application builds itself and passes to add_handler_coin
CallerCoins == {CoinObj(3, SYM_btc), CoinObj(4, SYM_DOGE)}

\* the object as it stands: once filed in COIN_MAP, configure_coin may have
\* set attributes on it
current(cmap, coin) ==
    IF coin.symbol \in DOMAIN cmap /\ cmap[coin.symbol].oid = coin.oid
    THEN cmap[coin.symbol] ELSE coin

\* the arguments add_handler_coin is called with
CoinArgs(cmap) ==
    {[kind |-> "Coin", coin |-> current(cmap, c)] : c \in CallerCoins}
        \cup {[kind |-> "str", sym |-> s] : s \in {SYM_BTC, SYM_btc, SYM_DOGE}}

\* the symbols and options configure_coin is called with
ConfigSyms == {SYM_BTC, SYM_btc, SYM_DOGE}
ConfigOpts ==
    {[k \in {"host"} |-> "a"],
     [k \in {"host", "can_issue"} |-> IF k = "host" THEN "b" ELSE TRUE],
     [k \in {"user"} |-> "u"]}

\* a catalog in the layout of lines 164-194, with an entry the application
\* assigned without a coin list
CoinsCatalog ==
    << [name |-> "Bitcoin", conf |-> [enabled |-> FALSE, coins |-> <<>>, kwargs |-> EmptyDict]],
       [name |-> "Golos",
        conf |-> [enabled |-> FALSE, coins |-> <<CoinObj(2, SYM_GOLOS)>>, kwargs |-> EmptyDict]],
       [name |-> "Monero", conf |-> [enabled |-> FALSE]] >>

CfgRet(op, handler, arg, raised, value) ==
    [op |-> op, handler |-> handler, arg |-> arg, raised |-> raised, value |-> value]

InitCoins ==
    /\ COIN_HANDLERS = CoinsCatalog
    /\ handlers = <<>>
    /\ handlers_loaded = FALSE
    /\ modules = InitModules
    /\ reloads = 0
    /\ last = NoTrace
    /\ ret = CfgRet("import", NoValue, NoValue, "none", NoValue)
    /\ COIN_MAP = InitCoinMap
    /\ COIND_RPC = InitRpc
    /\ calls = 0
    /\ store = <<>>
    /\ environ = EmptyDict
    /\ self = BareHandler
    /\ backend = NoBackend
    /\ caller = NoCaller
    /\ STORE = EmptyDict

AddHandlerCoinReturn(handler, arg, r) ==
    /\ COIN_HANDLERS' = r.catalog
    /\ COIN_MAP' = r.cmap
    /\ ret' = CfgRet("add_handler_coin", handler, arg, r.raised, r.value)
    /\ calls' = calls + 1
    /\ UNCHANGED <<COIND_RPC, outside_settings>>

AddHandlerCoin ==
    /\ calls < MaxCalls
    /\ \E handler \in CoinHandlerArgs : \E arg \in CoinArgs(COIN_MAP) :
        AddHandlerCoinReturn(handler, arg,
                             add_handler_coin(COIN_HANDLERS, COIN_MAP, handler, arg))

HandlerHasCoinReturn(handler, symbol, r) ==
    /\ COIN_HANDLERS' = r.catalog
    /\ ret' = CfgRet("handler_has_coin", handler, symbol, "none", r.value)
    /\ calls' = calls + 1
    /\ UNCHANGED <<COIN_MAP, COIND_RPC, outside_settings>>

HandlerHasCoin ==
    /\ calls < MaxCalls
    /\ \E handler \in CoinHandlerArgs : \E symbol \in {SYM_BTC, SYM_btc} :
        HandlerHasCoinReturn(handler, symbol, handler_has_coin(COIN_HANDLERS, handler, symbol))

ConfigureCoinReturn(symbol, opts, r) ==
    /\ COIND_RPC' = r.rpc
    /\ COIN_MAP' = r.cmap
    /\ COIN_HANDLERS' = r.catalog
    /\ ret' = CfgRet("configure_coin", NoValue, [symbol |-> symbol, opts |-> opts],
                     r.raised, r.value)
    /\ calls' = calls + 1
    /\ UNCHANGED outside_settings

ConfigureCoin ==
    /\ calls < MaxCalls
    /\ \E symbol \in ConfigSyms : \E opts \in ConfigOpts :
        ConfigureCoinReturn(symbol, opts,
                            configure_coin(COIND_RPC, COIN_MAP, COIN_HANDLERS, symbol, opts))

NextCoins ==
    \/ AddHandlerCoin
    \/ HandlerHasCoin
    \/ ConfigureCoin

SpecCoins == InitCoins /\ [][NextCoins]_vars

---------------------------------------------------------------------------
(* Vocabulary of the properties of the configuration functions             *)

\* the coin list of a handler, empty when the catalog has none for it
CoinsIn(ch, handler) ==
    IF handler \in HandlerNamesOf(ch) /\ "coins" \in DOMAIN ConfOf(ch, handler)
    THEN ConfOf(ch, handler).coins ELSE <<>>

\* the coins of a list whose symbol is the given one, as written / whatever the case
Exactly(coins, symbol) == {j \in 1..Len(coins) : coins[j].symbol = symbol}
AnyCase(coins, symbol) == {j \in 1..Len(coins) : upper(coins[j].symbol) = upper(symbol)}

\* the Coin an argument of add_handler_coin stands for
GivenCoin(cmap, arg) == IF arg.kind = "str" THEN cmap[upper(arg.sym)] ELSE arg.coin

\* the step is an add_handler_coin call that returned
Added == ret'.op = "add_handler_coin" /\ ret'.raised = "none"

(* C11 as claimed, for a Coin argument: after add_handler_coin(H, C)       *)
(* returned, the coin list of H holds exactly one coin whose symbol is the *)
(* symbol of C.                                                            *)
C11_ExactlyOneWithSymbol ==
    (ret.op = "add_handler_coin" /\ ret.raised = "none" /\ ret.arg.kind = "Coin") =>
        Cardinality(Exactly(CoinsIn(COIN_HANDLERS, ret.handler), ret.arg.coin.symbol)) = 1

(* C11 as amended: add_handler_coin is idempotent up to letter case.  A    *)
(* call for handler H and the Coin C its argument stands for (a bare       *)
(* symbol is upper-cased and looked up in COIN_MAP) leaves in H's list     *)
(* exactly one coin whose symbol equals C's ignoring case; when the list   *)
(* held none it returns true, appends C at the end and files C in COIN_MAP *)
(* unless its symbol is a key there; when the list held one it returns     *)
(* false and leaves catalog and COIN_MAP unchanged.                        *)
C11_IdempotentAnyCase ==
    [][Added =>
        /\ Cardinality(AnyCase(CoinsIn(COIN_HANDLERS', ret'.handler),
                               GivenCoin(COIN_MAP, ret'.arg).symbol)) = 1
        /\ AnyCase(CoinsIn(COIN_HANDLERS, ret'.handler),
                   GivenCoin(COIN_MAP, ret'.arg).symbol) = {} =>
              /\ ret'.value = TRUE
              /\ CoinsIn(COIN_HANDLERS', ret'.handler)
                    = Append(CoinsIn(COIN_HANDLERS, ret'.handler), GivenCoin(COIN_MAP, ret'.arg))
              /\ COIN_MAP'[GivenCoin(COIN_MAP, ret'.arg).symbol].symbol
                    = GivenCoin(COIN_MAP, ret'.arg).symbol
              /\ \A x \in DOMAIN COIN_MAP : COIN_MAP'[x] = COIN_MAP[x]
        /\ AnyCase(CoinsIn(COIN_HANDLERS, ret'.handler),
                   GivenCoin(COIN_MAP, ret'.arg).symbol) # {} =>
              /\ ret'.value = FALSE
              /\ COIN_HANDLERS' = COIN_HANDLERS
              /\ COIN_MAP' = COIN_MAP
    ]_vars

\* the Coin DOGE was added to the handler Doge, which the first call
\* created, and a later call with it returned false
C11_Witness ==
    /\ ret.op = "add_handler_coin"
    /\ ret.handler = "Doge"
    /\ ret.arg.kind = "Coin"
    /\ ret.arg.coin.symbol = SYM_DOGE
    /\ ret.value = FALSE
    /\ Len(CoinsIn(COIN_HANDLERS, "Doge")) = 1

(* C12 as claimed: add_handler_coin appends a Coin exactly when no coin of *)
(* the handler's list has the same symbol string, so a Coin whose symbol   *)
(* differs only in letter case from a listed one is appended.              *)
C12_CaseSensitive ==
    [][(Added /\ ret'.arg.kind = "Coin") =>
        ret'.value = (Exactly(CoinsIn(COIN_HANDLERS, ret'.handler),
                              ret'.arg.coin.symbol) = {})
    ]_vars

(* C12 as amended: handler_has_coin compares upper-cased symbols, so       *)
(* add_handler_coin appends a Coin exactly when no coin of the handler's   *)
(* list has the same symbol ignoring letter case; a Coin whose symbol      *)
(* differs only in case from a listed one is not appended, and the call    *)
(* returns false.                                                          *)
C12_CaseInsensitive ==
    [][(Added /\ ret'.arg.kind = "Coin") =>
        /\ ret'.value = (AnyCase(CoinsIn(COIN_HANDLERS, ret'.handler),
                                 ret'.arg.coin.symbol) = {})
        /\ (/\ Exactly(CoinsIn(COIN_HANDLERS, ret'.handler), ret'.arg.coin.symbol) = {}
            /\ AnyCase(CoinsIn(COIN_HANDLERS, ret'.handler), ret'.arg.coin.symbol) # {}) =>
              /\ ret'.value = FALSE
              /\ CoinsIn(COIN_HANDLERS', ret'.handler) = CoinsIn(COIN_HANDLERS, ret'.handler)
    ]_vars

\* Bitcoin lists BTC; adding the Coin btc returned false and appended nothing
C12_Witness ==
    /\ ret.op = "add_handler_coin"
    /\ ret.handler = "Bitcoin"
    /\ ret.arg.kind = "Coin"
    /\ ret.arg.coin.symbol = SYM_btc
    /\ ret.value = FALSE
    /\ Len(CoinsIn(COIN_HANDLERS, "Bitcoin")) = 1
    /\ CoinsIn(COIN_HANDLERS, "Bitcoin")[1].symbol = SYM_BTC

\* the step is a configure_coin call
Configured == ret'.op = "configure_coin"

\* an entry overlaid with options: named keys take the new values, the
\* others keep theirs
Overlaid(rpc, symbol, opts) ==
    [k \in (IF symbol \in DOMAIN rpc THEN DOMAIN rpc[symbol] ELSE {}) \cup DOMAIN opts |->
        IF k \in DOMAIN opts THEN opts[k] ELSE rpc[symbol][k]]

(* C13 as claimed: configure_coin(S, **opts) leaves the settings entry of  *)
(* S, as given, equal to its previous entry overlaid with opts, creating   *)
(* it when absent, and leaves the entry of every other symbol unchanged.   *)
C13_OverlaysEntryOfS ==
    [][Configured =>
        /\ DOMAIN COIND_RPC' = DOMAIN COIND_RPC \cup {ret'.arg.symbol}
        /\ COIND_RPC'[ret'.arg.symbol] = Overlaid(COIND_RPC, ret'.arg.symbol, ret'.arg.opts)
        /\ \A x \in DOMAIN COIND_RPC \ {ret'.arg.symbol} : COIND_RPC'[x] = COIND_RPC[x]
    ]_vars

(* C13 as amended: configure_coin(S, **opts) upper-cases S first.  It      *)
(* leaves the settings entry of S.upper() equal to its previous entry      *)
(* overlaid with opts (keys not named keep their values, named keys take   *)
(* the new ones), creating it when absent, returns that entry, and leaves  *)
(* the entry of every other symbol unchanged; no entry is made for S as    *)
(* given when it is not upper case.                                        *)
C13_OverlaysEntryOfUpperS ==
    [][Configured =>
        /\ DOMAIN COIND_RPC' = DOMAIN COIND_RPC \cup {upper(ret'.arg.symbol)}
        /\ COIND_RPC'[upper(ret'.arg.symbol)]
              = Overlaid(COIND_RPC, upper(ret'.arg.symbol), ret'.arg.opts)
        /\ ret'.value = COIND_RPC'[upper(ret'.arg.symbol)]
        /\ \A x \in DOMAIN COIND_RPC \ {upper(ret'.arg.symbol)} : COIND_RPC'[x] = COIND_RPC[x]
    ]_vars

\* two calls with disjoint keys left both in the entry of BTC, the latest
\* given as btc
C13_Witness ==
    /\ ret.op = "configure_coin"
    /\ ret.arg.symbol = SYM_btc
    /\ DOMAIN ret.arg.opts = {"user"}
    /\ SYM_btc \notin DOMAIN COIND_RPC
    /\ DOMAIN COIND_RPC[SYM_BTC] = {"host", "user"}
    /\ COIND_RPC[SYM_BTC]["host"] = "a"

---------------------------------------------------------------------------
(* KeyStore.py: KeyPair and MemoryKeyStore                                 *)

\* privex.helpers.is_true on the values the model passes for `used`
is_true(v) == v = TRUE

\* the value None of an attribute
NoneAttr == "None"

\* lines 60-65: KeyPair.__init__; kwargs holds network and private_key
KeyPair(kwargs, id) ==
    [id |-> id,
     network |-> kwargs["network"],
     private_key |-> kwargs["private_key"],
     public_key |-> dict_get(kwargs, "public_key", NoneAttr),
     account |-> dict_get(kwargs, "account", NoneAttr),
     key_type |-> dict_get(kwargs, "key_type", NoneAttr),
     balance |-> dict_get(kwargs, "balance", "0"),
     used |-> is_true(dict_get(kwargs, "used", FALSE))]

\* lines 102-117: the KeyPair s at list index i (counted from 0) passes the
\* filters f; a filter that is not supplied, or is None, is not in f
passes(s, i, f) ==
    /\ "network" \in DOMAIN f => s.network = f["network"]
    /\ "private_key" \in DOMAIN f => s.private_key = f["private_key"]
    /\ "public_key" \in DOMAIN f => s.public_key = f["public_key"]
    /\ "account" \in DOMAIN f => s.account = f["account"]
    /\ "key_type" \in DOMAIN f => s.key_type = f["key_type"]
    /\ "used" \in DOMAIN f => s.used = f["used"]
    /\ "key_type__in" \in DOMAIN f => s.key_type \in f["key_type__in"]
    /\ "id" \in DOMAIN f => i = f["id"]

\* lines 101-119: for i, s in enumerate(self.store); the position (from 1)
\* of the KeyPair returned, 0 for None
RECURSIVE scan(_, _, _)
scan(st, f, p) ==
    IF p > Len(st) THEN 0
    ELSE IF passes(st[p], p - 1, f) THEN p
    ELSE scan(st, f, p + 1)

\* lines 99-119: MemoryKeyStore.get
keystore_get(st, f) == scan(st, f, 1)

\* what a call returns: the position of the KeyPair in the store and the
\* KeyPair, or nothing for None
Found(st, p) == [pos |-> p, key |-> IF p = 0 THEN <<>> ELSE <<st[p]>>]

\* lines 124-126: setattr(s, k, v) for the kwargs that name an attribute
set_fields(s, kwargs) == [a \in DOMAIN s |-> IF a \in DOMAIN kwargs THEN kwargs[a] ELSE s[a]]

\* lines 124-127, s being the KeyPair at position p (None when p = 0)
update_at(st, kwargs, p) ==
    IF p = 0 THEN st
    ELSE [j \in 1..Len(st) |-> IF j = p THEN set_fields(st[j], kwargs) ELSE st[j]]

\* lines 122-127: 'id' in kwargs
set_with_id(st, kwargs, p) ==
    [store |-> update_at(st, kwargs, p), raised |-> "none",
     out |-> Found(update_at(st, kwargs, p), p)]

\* an id that repeats the one of the previous insertion
same_id(st) == Len(st)

\* line 129: id=len(self.store) + 1
next_id(st) == Len(st) + 1

\* lines 129-131; KeyPair() raises TypeError without network or private_key
set_new(st, kwargs) ==
    IF ~({"network", "private_key"} \subseteq DOMAIN kwargs)
    THEN [store |-> st, raised |-> "TypeError", out |-> Found(st, 0)]
    ELSE [store |-> Append(st, KeyPair(kwargs, next_id(st))), raised |-> "none",
          out |-> Found(Append(st, KeyPair(kwargs, next_id(st))), Len(st) + 1)]

\* lines 121-131: MemoryKeyStore.set
keystore_set(st, kwargs) ==
    IF "id" \in DOMAIN kwargs
    THEN set_with_id(st, kwargs, keystore_get(st, [k \in {"id"} |-> kwargs["id"]]))
    ELSE set_new(st, kwargs)

\* keyword arguments of set() for new KeyPairs; the last lacks network and
\* private_key
NewKeyArgs ==
    {[k \in {"network", "private_key", "account", "key_type"} |->
        CASE k = "network" -> "golos" [] k = "private_key" -> "k1"
          [] k = "account" -> "alice" [] k = "key_type" -> "active"],
     [k \in {"network", "private_key", "account", "key_type", "used"} |->
        CASE k = "network" -> "golos" [] k = "private_key" -> "k2"
          [] k = "account" -> "bob" [] k = "key_type" -> "posting" [] k = "used" -> TRUE],
     [k \in {"network", "private_key", "public_key", "account", "key_type"} |->
        CASE k = "network" -> "golos" [] k = "private_key" -> "k3"
          [] k = "public_key" -> "pub3" [] k = "account" -> "alice"
          [] k = "key_type" -> "memo"],
     [k \in {"account", "key_type"} |-> IF k = "account" THEN "alice" ELSE "active"]}

\* the ids set() and get() are called with
IdArgs == 0..MaxKeys

\* keyword arguments of set() with an id
UpdateArgs ==
    {[k \in {"id", "account"} |-> IF k = "id" THEN n ELSE "carol"] : n \in IdArgs}

\* keyword arguments of get()
GetArgs ==
    {EmptyDict,
     [k \in {"account", "key_type__in"} |-> IF k = "account" THEN "alice" ELSE {"active"}],
     [k \in {"account", "key_type__in"} |-> IF k = "account" THEN "bob" ELSE {"active"}],
     [k \in {"network", "used"} |-> IF k = "network" THEN "golos" ELSE TRUE],
     [k \in {"key_type", "public_key"} |-> IF k = "key_type" THEN "memo" ELSE "pub3"],
     [k \in {"private_key"} |-> "k2"]}
        \cup {[k \in {"id"} |-> n] : n \in IdArgs}
        \cup {[k \in {"network", "id"} |-> IF k = "network" THEN "golos" ELSE n] : n \in IdArgs}

KsRet(op, args, raised, out) ==
    [op |-> op, args |-> args, raised |-> raised, pos |-> out.pos, key |-> out.key]

InitKeyStore ==
    /\ COIN_HANDLERS = InitCatalog
    /\ handlers = <<>>
    /\ handlers_loaded = FALSE
    /\ modules = InitModules
    /\ reloads = 0
    /\ last = NoTrace
    /\ COIN_MAP = InitCoinMap
    /\ COIND_RPC = InitRpc
    /\ calls = 0
    /\ store = <<>>
    /\ environ = EmptyDict
    /\ self = BareHandler
    /\ backend = NoBackend
    /\ caller = NoCaller
    /\ STORE = EmptyDict
    /\ ret = KsRet("MemoryKeyStore", EmptyDict, "none", Found(<<>>, 0))

KeyStoreSetReturn(op, kwargs, r) ==
    /\ store' = r.store
    /\ ret' = KsRet(op, kwargs, r.raised, r.out)
    /\ UNCHANGED outside_keystore

\* set() without an id
KeyStoreSet ==
    /\ Len(store) < MaxKeys
    /\ \E kwargs \in NewKeyArgs : KeyStoreSetReturn("set", kwargs, keystore_set(store, kwargs))

\* set() with an id
KeyStoreUpdate ==
    \E kwargs \in UpdateArgs : KeyStoreSetReturn("set_id", kwargs, keystore_set(store, kwargs))

KeyStoreGet ==
    \E f \in GetArgs :
        /\ ret' = KsRet("get", f, "none", Found(store, keystore_get(store, f)))
        /\ UNCHANGED <<store, outside_keystore>>

NextKeyStore ==
    \/ KeyStoreSet
    \/ KeyStoreUpdate
    \/ KeyStoreGet

SpecKeyStore == InitKeyStore /\ [][NextKeyStore]_vars

---------------------------------------------------------------------------
(* Properties of the key store                                             *)

\* the KeyPair s satisfies the filters f, the id filter being read as the
\* id the KeyPair carries
satisfies(s, f) ==
    /\ "network" \in DOMAIN f => s.network = f["network"]
    /\ "private_key" \in DOMAIN f => s.private_key = f["private_key"]
    /\ "public_key" \in DOMAIN f => s.public_key = f["public_key"]
    /\ "account" \in DOMAIN f => s.account = f["account"]
    /\ "key_type" \in DOMAIN f => s.key_type = f["key_type"]
    /\ "used" \in DOMAIN f => s.used = f["used"]
    /\ "key_type__in" \in DOMAIN f => s.key_type \in f["key_type__in"]
    /\ "id" \in DOMAIN f => s.id = f["id"]

\* positions of the stored KeyPairs that satisfy the filters
Matching(st, f) == {p \in 1..Len(st) : satisfies(st[p], f)}

\* the first of a non-empty set of positions
First(ps) == CHOOSE p \in ps : \A q \in ps : p <= q

\* positions of the stored KeyPairs that carry the id
WithId(st, id) == {p \in 1..Len(st) : st[p].id = id}

Got == ret.op = "get"

\* C14: get returns the first KeyPair, in insertion order, that satisfies
\* every supplied filter (network, private_key, public_key, account,
\* key_type, key_type__in, used, id), and None when no stored KeyPair
\* satisfies them all.
C14_FirstMatchOfAllFilters ==
    Got =>
        IF Matching(store, ret.args) = {}
        THEN ret.pos = 0 /\ ret.key = <<>>
        ELSE ret.pos = First(Matching(store, ret.args)) /\ ret.key = <<store[ret.pos]>>

\* C15: get(id=k.id) returns k, for every KeyPair k the store holds, after
\* any sequence of set operations.
C15_IdFindsItsKeyPair ==
    (Got /\ DOMAIN ret.args = {"id"}) =>
        \A p \in WithId(store, ret.args["id"]) : ret.pos = p /\ ret.key = <<store[p]>>

\* C16: set with an id updates the fields of exactly the stored KeyPair
\* that carries the id and returns it; the number of stored KeyPairs and
\* every other KeyPair are unchanged.
C16_UpdatesKeyPairWithId ==
    [][(ret'.op = "set_id" /\ WithId(store, ret'.args["id"]) # {}) =>
          /\ Len(store') = Len(store)
          /\ ret'.pos \in WithId(store, ret'.args["id"])
          /\ ret'.key = <<store'[ret'.pos]>>
          /\ store'[ret'.pos] = set_fields(store[ret'.pos], ret'.args)
          /\ \A p \in 1..Len(store) : p # ret'.pos => store'[p] = store[p]]_vars

\* C17: set without an id appends one new KeyPair at the end of the store,
\* gives it the id that follows the number of KeyPairs inserted before it
\* (the first gets 1, each one after it one more than the insertion before),
\* returns it and leaves the KeyPairs stored before as they were and in the
\* same order; no step removes a KeyPair.
C17_AppendsWithNextId ==
    [][/\ Len(store') >= Len(store)
       /\ (ret'.op = "set" /\ ret'.raised = "none") =>
            /\ Len(store') = Len(store) + 1
            /\ SubSeq(store', 1, Len(store)) = store
            /\ store'[Len(store')].id = Len(store) + 1
            /\ ret'.pos = Len(store')
            /\ ret'.key = <<store'[Len(store')]>>]_vars

\* a second KeyPair was inserted, after the id of the first was reassigned
C17_Witness ==
    /\ ret.op = "set"
    /\ ret.raised = "none"
    /\ Len(store) = 2
    /\ ret.pos = 2
    /\ store[2].id = 2
    /\ store[1].id # 1

---------------------------------------------------------------------------
(* base/BaseHandler.py, base/objects.py, Bitcoin/BitcoinMixin.py: the      *)
(* settings resolver.  A setting value is a tagged tuple, so that a cast   *)
(* changes the value it is applied to.                                     *)

StrVal(x)  == <<"str", x>>
IntVal(x)  == <<"int", x>>
BoolVal(b) == <<"bool", IF b THEN "True" ELSE "False">>

\* a bound method or another attribute the model does not look into
Attr(name) == <<"attr", name>>

\* str.upper() / str.lower() on the setting keys of the model
key_upper(k) ==
    CASE k \in {"host", "HOST"} -> "HOST"
      [] k \in {"wallet", "WALLET"} -> "WALLET"
      [] k \in {"coin_type", "COIN_TYPE"} -> "COIN_TYPE"
      [] k \in {"items", "ITEMS"} -> "ITEMS"
      [] k \in {"port", "PORT"} -> "PORT"
      [] k \in {"user", "USER"} -> "USER"
      [] k \in {"password", "PASSWORD"} -> "PASSWORD"
      [] k \in {"json", "JSON"} -> "JSON"
      [] k \in {"confirms_needed", "CONFIRMS_NEEDED"} -> "CONFIRMS_NEEDED"

key_lower(k) ==
    CASE k \in {"host", "HOST"} -> "host"
      [] k \in {"wallet", "WALLET"} -> "wallet"
      [] k \in {"coin_type", "COIN_TYPE"} -> "coin_type"
      [] k \in {"items", "ITEMS"} -> "items"
      [] k \in {"port", "PORT"} -> "port"
      [] k \in {"user", "USER"} -> "user"
      [] k \in {"password", "PASSWORD"} -> "password"
      [] k \in {"json", "JSON"} -> "json"
      [] k \in {"confirms_needed", "CONFIRMS_NEEDED"} -> "confirms_needed"

\* BaseHandler.py line 60: f'COIN_{symbol.upper()}_{key.upper()}'
setting_key(symbol, key) == <<"COIN", upper(symbol), key_upper(key)>>

\* the key 'COIND_RPC' of the settings map
COIND_RPC_KEY == <<"C", "O", "I", "N", "D", "_", "R", "P", "C">>

\* a call that raises; the value is never read
Throws(e) == [raised |-> e, value |-> None]

\* objects.py lines 134-138: json.loads(self.setting_json), {} when it
\* raises.  setting_json is modelled by the kind of JSON text it holds.
json_loads(text) ==
    CASE text.kind = "object" -> [kind |-> "dict", d |-> text.members]
      [] text.kind = "array" -> [kind |-> "list", l |-> text.members]
      [] text.kind = "number" -> [kind |-> "int"]
      [] OTHER -> [kind |-> "dict", d |-> EmptyDict]

\* objects.py lines 140-146: Coin.settings without its 'json' key
flat_settings(c) ==
    [k \in {"host", "port", "user", "password"} |->
        CASE k = "host" -> c.setting_host
          [] k = "port" -> c.setting_port
          [] k = "user" -> c.setting_user
          [] k = "password" -> c.setting_pass]

\* the keys of Coin.settings
SettingsKeys == {"host", "port", "user", "password", "json"}

\* the objects find_obj_key is handed
CoinOf(c) == [kind |-> "Coin", coin |-> c]
DictOf(d) == [kind |-> "dict", d |-> d]

\* objects.py lines 126-146: the Coin.settings property
json_of(c) == json_loads(c.setting_json)
settings_of(c) ==
    DictOf([k \in SettingsKeys |-> IF k = "json" THEN json_of(c) ELSE flat_settings(c)[k]])

\* attributes of the built-in types that hasattr() finds
DictAttrs == {"get", "items", "keys", "values", "pop", "update", "copy", "clear", "setdefault"}
ListAttrs == {"append", "index", "count", "pop", "copy", "clear", "sort"}
IntAttrs == {"real", "imag", "numerator", "denominator"}

\* hasattr(obj, key)
has_attr(obj, key) ==
    CASE obj.kind = "Coin" -> key \in CoinAttrs
      [] obj.kind = "dict" -> key \in DictAttrs
      [] obj.kind = "list" -> key \in ListAttrs
      [] OTHER -> key \in IntAttrs

\* getattr(obj, key)
get_attr(obj, key) ==
    IF obj.kind = "Coin" /\ key \in DOMAIN obj.coin THEN obj.coin[key] ELSE Attr(key)

\* BaseHandler.py lines 40-42
find_attr(key, obj) ==
    IF has_attr(obj, key) THEN Returns(get_attr(obj, key))
    ELSE IF has_attr(obj, key_lower(key)) THEN Returns(get_attr(obj, key_lower(key)))
    ELSE IF has_attr(obj, key_upper(key)) THEN Returns(get_attr(obj, key_upper(key)))
    ELSE Throws("KeyError")

\* BaseHandler.py lines 44-46: key in obj / key.upper() in obj /
\* key.lower() in obj.  A Coin iterates over (name, value) pairs, which no
\* key equals; a list that holds the key cannot be indexed by it; a number
\* cannot be searched.
find_item(key, obj) ==
    CASE obj.kind = "Coin" -> Throws("KeyError")
      [] obj.kind = "list" ->
            IF {key, key_upper(key), key_lower(key)} \cap obj.l # {}
            THEN Throws("TypeError") ELSE Throws("KeyError")
      [] obj.kind = "dict" ->
            IF key \in DOMAIN obj.d THEN Returns(obj.d[key])
            ELSE IF key_upper(key) \in DOMAIN obj.d THEN Returns(obj.d[key_upper(key)])
            ELSE IF key_lower(key) \in DOMAIN obj.d THEN Returns(obj.d[key_lower(key)])
            ELSE Throws("KeyError")
      [] OTHER -> Throws("TypeError")

\* BaseHandler.py lines 40-46 and 56, for an object that is not a Coin
find_plain(key, obj) ==
    IF find_attr(key, obj).raised = "none" THEN find_attr(key, obj) ELSE find_item(key, obj)

\* BaseHandler.py lines 49-54: obj.settings, and obj.settings['json'] on KeyError
find_nested(key, c) ==
    IF find_plain(key, settings_of(c)).raised = "KeyError"
    THEN find_plain(key, json_of(c))
    ELSE find_plain(key, settings_of(c))

\* BaseHandler.py lines 14-56: find_obj_key
find_obj_key(key, obj) ==
    IF obj.kind # "Coin" THEN find_plain(key, obj)
    ELSE IF find_attr(key, obj).raised = "none" THEN find_attr(key, obj)
    ELSE find_nested(key, obj.coin)

\* BaseHandler.py lines 82-88: find_obj_key(key, c), then the default
from_object(key, c, default) ==
    IF find_obj_key(key, c).raised \in {"KeyError", "AttributeError"}
    THEN Returns(default)
    ELSE find_obj_key(key, c)

\* BaseHandler.py lines 79-88: c = self.coins.get(symbol, {})
from_coins(me, symbol, key, default) ==
    IF "coins" \notin DOMAIN me THEN Returns(default)
    ELSE IF symbol \in DOMAIN me.coins
         THEN from_object(key, CoinOf(me.coins[symbol]), default)
    ELSE from_object(key, DictOf(EmptyDict), default)

\* BaseHandler.py lines 71-76: self.coin
from_coin(me, symbol, key, default) ==
    IF "coin" \notin DOMAIN me THEN from_coins(me, symbol, key, default)
    ELSE IF find_obj_key(key, CoinOf(me.coin)).raised \in {"KeyError", "AttributeError"}
         THEN from_coins(me, symbol, key, default)
    ELSE find_obj_key(key, CoinOf(me.coin))

\* BaseHandler.py lines 66-68: self.allsettings.get(symbol.upper(), {})
from_allsettings(me, symbol, key, default) ==
    IF key \in DOMAIN dict_get(me.allsettings, upper(symbol), EmptyDict)
    THEN Returns(me.allsettings[upper(symbol)][key])
    ELSE from_coin(me, symbol, key, default)

\* BaseHandler.py lines 58-88: get_setting
get_setting(env, me, symbol, key, default) ==
    IF setting_key(symbol, key) \in DOMAIN env
    THEN Returns(env[setting_key(symbol, key)])
    ELSE from_allsettings(me, symbol, key, default)

\* BitcoinMixin.py lines 55-58: _bc_defaults
_bc_defaults ==
    [host |-> StrVal("127.0.0.1"), port |-> IntVal("8332"), user |-> None, password |-> None,
     confirms_needed |-> IntVal("0"), use_trusted |-> BoolVal(TRUE), string_amt |-> BoolVal(TRUE)]

\* privex.helpers.empty(v): None and the empty string
empty(v) == v \in {None, StrVal("")}

\* the decimal numerals of the model
Numerals == {"0", "1", "6", "8332", "18332"}

\* int(v) succeeds
int_ok(v) == v[1] \in {"int", "bool"} \/ (v[1] = "str" /\ v[2] \in Numerals)

\* int(v)
int_cast(v) ==
    IF v[1] = "bool" THEN IntVal(IF v = BoolVal(TRUE) THEN "1" ELSE "0") ELSE IntVal(v[2])

\* BitcoinMixin.py lines 134-135: v in [True, 'true', 'True', 'TRUE', 1, 'yes']
truthy(v) ==
    BoolVal(v \in {BoolVal(TRUE), StrVal("true"), StrVal("True"), StrVal("TRUE"), IntVal("1"), StrVal("yes")})

\* BitcoinMixin.py lines 68-72: all_coins
all_coins(me) ==
    IF "coins" \in DOMAIN me THEN me.coins
    ELSE [sym \in {me.coin.symbol_id} |-> me.coin]

\* BitcoinMixin.py lines 91-93: the flat fields of the Coin, then the
\* contents of its JSON
coin_layer(c) == dict_merge(flat_settings(c), json_of(c).d)

\* BitcoinMixin.py line 93: {**s[sym], **sc['json']} needs a dict
unpacks(c) == json_of(c).kind = "dict"

\* the entry of COIND_RPC is merged into the settings of the Coin
overlay_merged(s, rpc) ==
    [sym \in (DOMAIN s) \cup (DOMAIN rpc) |->
        IF sym \in DOMAIN rpc
        THEN dict_merge(dict_get(s, sym, EmptyDict), rpc[sym])
        ELSE s[sym]]

\* BitcoinMixin.py lines 99-100: s[symbol] = dict(conn)
overlay(s, rpc) == dict_merge(s, rpc)

\* BitcoinMixin.py lines 97-100
with_rpc(s, settings) ==
    IF COIND_RPC_KEY \in DOMAIN settings THEN overlay(s, settings[COIND_RPC_KEY]) ELSE s

\* BitcoinMixin.py lines 125-130: a default for every setting that is
\* missing or empty
fill_defaults(z) ==
    [k \in (DOMAIN z) \cup (DOMAIN _bc_defaults) |->
        IF k \in DOMAIN _bc_defaults /\ ~(k \in DOMAIN z /\ ~empty(z[k]))
        THEN _bc_defaults[k]
        ELSE z[k]]

\* BitcoinMixin.py lines 132-135, z with its defaults filled in
cast_settings(z) ==
    [k \in DOMAIN z |->
        CASE k \in {"confirms_needed", "port"} -> int_cast(z[k])
          [] k \in {"use_trusted", "string_amt"} -> truthy(z[k])
          [] OTHER -> z[k]]

\* BitcoinMixin.py lines 132-133 raise ValueError
casts_fail(z) == \E k \in {"confirms_needed", "port"} : ~int_ok(fill_defaults(z)[k])

\* BitcoinMixin.py lines 109-136: _clean_settings
_clean_settings(d_settings) ==
    IF \E sym \in DOMAIN d_settings : casts_fail(d_settings[sym])
    THEN Throws("ValueError")
    ELSE Returns([sym \in DOMAIN d_settings |-> cast_settings(fill_defaults(d_settings[sym]))])

\* a line 100 that stores conn itself: every dict of COIND_RPC is one of s
conn_shared_all(rpc) == DOMAIN rpc

\* BitcoinMixin.py line 100: s[symbol] = dict(conn) stores a new dict, no
\* dict of COIND_RPC is one that _clean_settings writes to
conn_shared(rpc) == {}

\* BitcoinMixin.py lines 130-135 write to z in place: the settings map once
\* the dicts it shares with s hold the written values
written_through(settings, written) ==
    [k \in DOMAIN settings |->
        IF k = COIND_RPC_KEY
        THEN [sym \in DOMAIN settings[k] |->
                 IF sym \in conn_shared(settings[k]) THEN written[sym] ELSE settings[k][sym]]
        ELSE settings[k]]

\* BitcoinMixin.py lines 86-100: s before _clean_settings
merged_settings(me) ==
    with_rpc([sym \in DOMAIN all_coins(me) |-> coin_layer(all_coins(me)[sym])], me.allsettings)

\* BitcoinMixin.py lines 125-130 ran for every symbol, the casts did not
defaults_filled(s) == [sym \in DOMAIN s |-> fill_defaults(s[sym])]

\* BitcoinMixin.py lines 86-107: the settings are computed and stored
load_settings(me) ==
    IF "coins" \notin DOMAIN me /\ "coin" \notin DOMAIN me
    THEN [self |-> me, out |-> Throws("Exception")]
    ELSE IF \E sym \in DOMAIN all_coins(me) : ~unpacks(all_coins(me)[sym])
    THEN [self |-> me, out |-> Throws("TypeError")]
    ELSE IF _clean_settings(merged_settings(me)).raised # "none"
    THEN [self |-> [me EXCEPT !.allsettings =
                        written_through(me.allsettings, defaults_filled(merged_settings(me)))],
          out |-> Throws("ValueError")]
    ELSE [self |-> [me EXCEPT !._settings = _clean_settings(merged_settings(me)).value,
                              !.allsettings =
                                  written_through(me.allsettings,
                                                  _clean_settings(merged_settings(me)).value)],
          out |-> _clean_settings(merged_settings(me))]

\* every call computes the settings again
never_cached(me, reset) == FALSE

\* BitcoinMixin.py line 83: len(self._settings) > 0 and not reset
is_cached(me, reset) == me._settings # EmptyDict /\ ~reset

\* BitcoinMixin.py lines 74-107: _prep_settings
_prep_settings(me, reset) ==
    IF is_cached(me, reset)
    THEN [self |-> me, out |-> Returns(me._settings), cached |-> TRUE]
    ELSE [self |-> load_settings(me).self, out |-> load_settings(me).out, cached |-> FALSE]

---------------------------------------------------------------------------
(* The resolver as a state machine: a handler instance is built in some    *)
(* environment, then get_setting and _prep_settings are called on it.      *)

\* Coin(symbol='BTC', ...) with the fields the resolver reads
SettingsCoin(coin_type, host, port, json) ==
    [symbol |-> SYM_BTC, symbol_id |-> SYM_BTC, coin_type |-> coin_type, our_account |-> None,
     setting_host |-> host, setting_port |-> port, setting_user |-> None, setting_pass |-> None,
     setting_json |-> json]

JsonObject(members) == [kind |-> "object", members |-> members]

\* the default '{}', two objects, a list, a number and text that is not JSON
JsonTexts ==
    {JsonObject(EmptyDict),
     JsonObject([wallet |-> StrVal("w1"), confirms_needed |-> StrVal("6"), host |-> StrVal("json.example")]),
     JsonObject([WALLET |-> StrVal("W2")]),
     [kind |-> "array", members |-> {"wallet"}],
     [kind |-> "number"],
     [kind |-> "invalid"]}

SettingsCoins ==
    {SettingsCoin(None, None, None, j) : j \in JsonTexts}
        \cup {SettingsCoin(StrVal("bitcoind"), StrVal("coin.example"), IntVal("8332"), j) :
                j \in {JsonObject(EmptyDict),
                       JsonObject([wallet |-> StrVal("w1"), confirms_needed |-> StrVal("6"),
                                   host |-> StrVal("json.example")])}}

\* settings maps handed to the handler: none, an entry for BTC, an entry
\* for btc, COIND_RPC with an entry for BTC, and both
BtcEntry == [host |-> StrVal("cfg.example")]
RpcEntry == [port |-> StrVal("18332"), user |-> StrVal(""), wallet |-> StrVal("rpcw"), use_trusted |-> StrVal("no")]
SettingsMaps ==
    {EmptyDict,
     [s \in {SYM_BTC} |-> BtcEntry],
     [s \in {SYM_btc} |-> [host |-> StrVal("lower.example")]],
     [s \in {COIND_RPC_KEY} |-> [t \in {SYM_BTC} |-> RpcEntry]],
     [s \in {COIND_RPC_KEY} |-> [t \in {SYM_BTC} |-> EmptyDict]],
     [s \in {SYM_BTC, COIND_RPC_KEY} |->
        IF s = SYM_BTC THEN BtcEntry ELSE [t \in {SYM_BTC} |-> RpcEntry]]}

\* BaseManager.py lines 45-56 and BaseLoader.py lines 65-95: a manager has
\* .coin, a loader has .coins keyed by symbol_id
Manager(settings, c) == [allsettings |-> settings, _settings |-> EmptyDict, coin |-> c]
Loader(settings, c) ==
    [allsettings |-> settings, _settings |-> EmptyDict, coins |-> [s \in {c.symbol_id} |-> c]]

\* BaseLoader.py lines 65-95: a loader built without coins (coins = [])
NoCoins(settings) == [allsettings |-> settings, _settings |-> EmptyDict, coins |-> EmptyDict]

Handlers ==
    {Manager(m, c) : m \in SettingsMaps, c \in SettingsCoins}
        \cup {Loader(m, c) : m \in SettingsMaps, c \in SettingsCoins}
        \cup {NoCoins(m) : m \in SettingsMaps}

\* os.environ: without and with COIN_BTC_HOST
Environs ==
    {EmptyDict, [n \in {setting_key(SYM_BTC, "host")} |-> StrVal("env.example")]}

QuerySymbols == {SYM_BTC, SYM_btc}
QueryKeys == {"host", "HOST", "coin_type", "wallet", "WALLET", "items"}
Default == StrVal("dflt")

\* what is known of the resolutions so far: the map the latest successful
\* _prep_settings returned (none yet: <<>>), and whether the settings map
\* or the Coin were changed since that map was computed
NoneResolved == [resolved |-> <<>>, stale |-> FALSE]

Resolutions(prev, op, cached, out) ==
    CASE op = "_prep_settings" /\ out.raised = "none" ->
            [resolved |-> <<out.value>>, stale |-> prev.stale /\ cached]
      [] op \in {"configure_coin", "setattr"} -> [prev EXCEPT !.stale = TRUE]
      [] OTHER -> prev

\* cached: the call returned the map it had stored (BitcoinMixin.py lines 83-84);
\* prior, latest: the resolutions known before and after the call
ResRet(op, symbol, key, reset, cached, out, prev) ==
    [op |-> op, symbol |-> symbol, key |-> key, reset |-> reset, cached |-> cached,
     raised |-> out.raised, value |-> out.value,
     prior |-> prev, latest |-> Resolutions(prev, op, cached, out)]

InitResolver ==
    /\ COIN_HANDLERS = InitCatalog
    /\ handlers = <<>>
    /\ handlers_loaded = FALSE
    /\ modules = InitModules
    /\ reloads = 0
    /\ last = NoTrace
    /\ COIN_MAP = InitCoinMap
    /\ COIND_RPC = InitRpc
    /\ calls = 0
    /\ store = <<>>
    /\ environ \in Environs
    /\ self \in Handlers
    /\ backend = NoBackend
    /\ caller = NoCaller
    /\ STORE = EmptyDict
    /\ ret = ResRet("__init__", SYM_BTC, "host", FALSE, FALSE, Returns(None), NoneResolved)

GetSetting ==
    \E symbol \in QuerySymbols, key \in QueryKeys :
        /\ ret' = ResRet("get_setting", symbol, key, FALSE, FALSE,
                         get_setting(environ, self, symbol, key, Default), ret.latest)
        /\ UNCHANGED <<environ, self, outside_resolver>>

PrepSettingsReturn(reset, r) ==
    /\ self' = r.self
    /\ ret' = ResRet("_prep_settings", SYM_BTC, "host", reset, r.cached, r.out, ret.latest)
                  @@ ("given" :> self)
    /\ UNCHANGED <<environ, outside_resolver>>

PrepSettings ==
    \E reset \in BOOLEAN : PrepSettingsReturn(reset, _prep_settings(self, reset))

\* __init__.py lines 275-278: configure_coin('BTC', host=...) on the settings
\* map the handler was built with (the handler holds the same dict)
rpc_configured(settings, opts) ==
    dict_merge(settings,
               [k \in {COIND_RPC_KEY} |->
                    dict_merge(dict_get(settings, COIND_RPC_KEY, EmptyDict),
                               [t \in {SYM_BTC} |->
                                    dict_merge(dict_get(dict_get(settings, COIND_RPC_KEY, EmptyDict),
                                                        SYM_BTC, EmptyDict),
                                               opts)])])

\* objects.py lines 78-146: a Coin is a mutable object; setting_host is
\* assigned on the Coin the handler was built with (as __init__.py line 283
\* does with setattr)
host_set(me, v) ==
    IF "coin" \in DOMAIN me THEN [me EXCEPT !.coin.setting_host = v]
    ELSE [me EXCEPT !.coins = [sym \in DOMAIN @ |-> [@[sym] EXCEPT !.setting_host = v]]]

\* the values the changes write
NewHost == StrVal("new.example")

Changed(op, me) ==
    /\ calls < MaxChanges
    /\ calls' = calls + 1
    /\ self' = me
    /\ ret' = ResRet(op, SYM_BTC, "host", FALSE, FALSE, Returns(None), ret.latest)
    /\ UNCHANGED <<environ, COIN_HANDLERS, registry_vars, COIN_MAP, COIND_RPC, keystore_vars,
                   manager_vars, caller>>

\* the settings map is changed after the handler was built
ConfigureRpc ==
    Changed("configure_coin",
            [self EXCEPT !.allsettings = rpc_configured(@, [host |-> NewHost])])

\* the Coin is changed after the handler was built
SetCoinHost == Changed("setattr", host_set(self, NewHost))

\* Bitcoin/__init__.py lines 103-122: reload() empties the class attribute
\* BitcoinMixin._settings; an instance that has resolved its settings reads
\* its own attribute (BitcoinMixin.py line 106), one that has not reads {}
\* either way
ModuleReload ==
    /\ ret' = ResRet("reload", SYM_BTC, "host", FALSE, FALSE, Returns(None), ret.latest)
    /\ UNCHANGED <<environ, self, outside_resolver>>

NextResolver ==
    \/ GetSetting
    \/ PrepSettings
    \/ ConfigureRpc
    \/ SetCoinHost
    \/ ModuleReload

SpecResolver == InitResolver /\ [][NextResolver]_vars

---------------------------------------------------------------------------
(* Properties of the settings resolver                                     *)

\* the Coin a handler associates with the symbol: its .coin, or the entry
\* of the symbol in its .coins
Associated(me, symbol) ==
    IF "coin" \in DOMAIN me THEN <<me.coin>>
    ELSE IF "coins" \in DOMAIN me /\ symbol \in DOMAIN me.coins THEN <<me.coins[symbol]>>
    ELSE <<>>

\* the key as given, lower-cased, upper-cased
Casings(key) == <<key, key_lower(key), key_upper(key)>>

\* the fields of a Coin that hold a setting value
ValueFields == {"coin_type", "our_account", "setting_host", "setting_port", "setting_user", "setting_pass"}

\* the values a dict holds under the casings of the key, in their order
Under(d, key) ==
    SelectSeq([i \in 1..3 |-> IF Casings(key)[i] \in DOMAIN d THEN <<d[Casings(key)[i]]>> ELSE <<>>],
              LAMBDA x : x # <<>>)

\* the values that were set for the key on the Coin: a field, a flat
\* setting, an entry of the JSON extras, in this order; a field or setting
\* that is None was not set
SetOn(c, key) ==
    SelectSeq(Under([f \in ValueFields |-> c[f]], key), LAMBDA x : x # <<None>>)
        \o SelectSeq(Under(flat_settings(c), key), LAMBDA x : x # <<None>>)
        \o (IF c.setting_json.kind = "object" THEN Under(c.setting_json.members, key) ELSE <<>>)

\* what was set for the key on the Coin associated with the symbol
CoinLayer(me, symbol, key) ==
    IF Associated(me, symbol) = <<>> THEN <<>> ELSE SetOn(Associated(me, symbol)[1], key)

GotSetting == ret.op = "get_setting"

HasOverride == setting_key(ret.symbol, ret.key) \in DOMAIN environ

\* settings[symbol][key] exists
InSettings(symbol, key) ==
    symbol \in DOMAIN self.allsettings /\ key \in DOMAIN self.allsettings[symbol]

\* the value of the highest layer that has the key: the environment
\* override, settings[symbol][key], the Coin, the default
Resolved(symbol, key, default) ==
    IF setting_key(symbol, key) \in DOMAIN environ THEN environ[setting_key(symbol, key)]
    ELSE IF InSettings(symbol, key) THEN self.allsettings[symbol][key]
    ELSE IF CoinLayer(self, symbol, key) # <<>> THEN CoinLayer(self, symbol, key)[1][1]
    ELSE default

\* C18: get_setting returns the value of the highest-priority layer that has
\* the key: the environment override COIN_<SYMBOL>_<KEY>, then
\* settings[symbol][key], then a value found on the associated Coin or its
\* settings / JSON extras, then the default.
C18_HighestLayerWins ==
    GotSetting => ret.raised = "none" /\ ret.value = Resolved(ret.symbol, ret.key, Default)

\* C19: without an environment override, without an entry in the settings
\* map and with a key that was not set on the Coin or in its JSON extras,
\* get_setting does not raise and returns the default.
C19_DefaultForMissingKey ==
    (/\ GotSetting
     /\ ~HasOverride
     /\ ~InSettings(ret.symbol, ret.key)
     /\ ~InSettings(upper(ret.symbol), ret.key)
     /\ CoinLayer(self, ret.symbol, ret.key) = <<>>)
        => ret.raised = "none" /\ ret.value = Default

\* the entry of the symbol in COIND_RPC, if there is one
RpcOf(me) == dict_get(me.allsettings, COIND_RPC_KEY, EmptyDict)

\* the value of a key of the merged map that comes from the entry conn of
\* COIND_RPC alone: the value of conn unless it is empty, else the built-in
\* default
FromRpc(conn, k) ==
    IF k \in DOMAIN conn /\ ~empty(conn[k]) THEN conn[k]
    ELSE IF k \in DOMAIN _bc_defaults THEN _bc_defaults[k]
    ELSE conn[k]

\* the type a key of the merged map is cast to
Coerced(k, v) ==
    CASE k \in {"confirms_needed", "port"} -> int_cast(v)
      [] k \in {"use_trusted", "string_amt"} -> truthy(v)
      [] OTHER -> v

\* the call computed the merged map from the Coin and the settings map
Computed == ret.op = "_prep_settings" /\ ret.raised = "none" /\ ~ret.cached

\* C20: in the merged map a symbol that has an entry in COIND_RPC takes no
\* value from the Coin: each key has the value of the entry, or the built-in
\* default where the entry has none or an empty one, whatever the Coin and
\* its JSON extras carry.
C20_RpcEntryIsExclusive ==
    Computed =>
        \A sym \in DOMAIN RpcOf(self) :
            /\ sym \in DOMAIN ret.value
            /\ DOMAIN ret.value[sym] = (DOMAIN RpcOf(self)[sym]) \cup (DOMAIN _bc_defaults)
            /\ \A k \in DOMAIN ret.value[sym] :
                    ret.value[sym][k] = Coerced(k, FromRpc(RpcOf(self)[sym], k))

\* the merged map of a Coin that carries a host, a port and a wallet of its
\* own, for a symbol whose COIND_RPC entry has a port and a wallet and an
\* empty user
C20_Witness ==
    /\ Computed
    /\ "coin" \in DOMAIN self
    /\ self.coin.setting_host = StrVal("coin.example")
    /\ self.coin.setting_json.kind = "object"
    /\ "wallet" \in DOMAIN self.coin.setting_json.members
    /\ RpcOf(self) = [t \in {SYM_BTC} |-> RpcEntry]
    /\ ret.value[SYM_BTC]["host"] = StrVal("127.0.0.1")
    /\ ret.value[SYM_BTC]["port"] = IntVal("18332")
    /\ ret.value[SYM_BTC]["wallet"] = StrVal("rpcw")
    /\ ret.value[SYM_BTC]["user"] = None

\* ---------------------------------------------------------------------
\* C21: the resolved settings map is cached

\* the call was _prep_settings
Prepped == ret.op = "_prep_settings"

\* an earlier _prep_settings of this handler returned a map
ResolvedBefore == ret.prior.resolved # <<>>

\* the map the latest earlier resolution returned
PriorMap == ret.prior.resolved[1]

\* what a computation from the settings map and the Coins as they are now gives
Recomputed == load_settings(self).out

---------------------------------------------------------------------------
(* GolosManager (Golos/GolosManager.py) over BaseManager                   *)
(* (base/BaseManager.py): address_valid, balance, send, get_priv and       *)
(* send_or_issue (SpecManager).  A Decimal amount is an integer count of   *)
(* 10^-Scale; account names, memos and keys are strings, None is NoneAttr. *)
(* The backend is the Golos node behind self.rpc: the accounts that exist, *)
(* their balances, the precision of the asset and the transfers broadcast. *)
(* A call of the manager makes its backend calls in order; `fault` is the  *)
(* number of the backend call that fails (0: none does).                   *)

\* decimal places the amounts of the model carry
Scale == 5
\* calls of a manager in one run
MaxSends == 2
\* backend calls one call of a manager can make
MaxRpcCalls == 5

RECURSIVE pow10(_)
pow10(n) == IF n = 0 THEN 1 ELSE 10 * pow10(n - 1)

\* 10^-dp as an amount
quantum(dp) == pow10(Scale - dp)

\* an amount rounded to dp places, a half rounded up
dec_round_half_up(amount, dp) == ((amount + quantum(dp) \div 2) \div quantum(dp)) * quantum(dp)

\* privex.helpers dec_round(amount, dp=dp, rounding=ROUND_DOWN), GolosManager.py
\* line 119: quantized to dp places, towards zero
dec_round(amount, dp) ==
    IF amount >= 0 THEN (amount \div quantum(dp)) * quantum(dp)
    ELSE -(((-amount) \div quantum(dp)) * quantum(dp))

\* GolosManager.py line 121: pow(10, -prec) is the int 1 for prec = 0 and a
\* binary float otherwise; Decimal() of that float is its exact value, which
\* lies above 10^-prec for prec in 1..5, by less than 10^-Scale
float_above(prec) == prec \in 1..5

\* GolosManager.py line 121: amount < Decimal(pow(10, -prec)), amount being a
\* multiple of 10^-prec
lower_than_precision(amount, prec) ==
    IF float_above(prec) THEN amount <= quantum(prec) ELSE amount < quantum(prec)

\* privex.helpers empty(v): None or the empty string
empty_str(v) == v \in {NoneAttr, ""}

\* BaseManager.py lines 45-56: BaseManager.__init__; GolosManager.py lines
\* 19-24: _precision = None, here <<>>
GolosManager(c) ==
    [class |-> "GolosManager", coin |-> c, symbol |-> upper(c.symbol_id), _precision |-> <<>>]

\* the next backend call is the one that fails
Fails(t, fault) == fault = Len(t) + 1

\* GolosManager.py lines 26-27: address_valid; t is the list of the backend
\* calls made so far
golos_address_valid(be, address, t, fault) ==
    [trace |-> Append(t, <<"get_accounts", address>>),
     raised |-> IF Fails(t, fault) THEN "RPCError" ELSE "none",
     value |-> ~Fails(t, fault) /\ address \in be.accounts]

\* GolosManager.py lines 97-101, the account being validated
balance_of(be, addr, v, fault) ==
    IF v.raised # "none" THEN [trace |-> v.trace, raised |-> v.raised, value |-> 0]
    ELSE IF ~v.value THEN [trace |-> v.trace, raised |-> "AccountNotFound", value |-> 0]
    ELSE IF Fails(v.trace, fault)
    THEN [trace |-> Append(v.trace, <<"get_balances", addr>>), raised |-> "RPCError", value |-> 0]
    ELSE [trace |-> Append(v.trace, <<"get_balances", addr>>), raised |-> "none",
          value |-> be.balances[addr]]

\* GolosManager.py lines 93-95: if not address: address = self.coin.our_account
balance_address(me, address) == IF empty_str(address) THEN me.coin.our_account ELSE address

\* GolosManager.py lines 93-101: balance
golos_balance(me, be, address, t, fault) ==
    balance_of(be, balance_address(me, address),
               golos_address_valid(be, balance_address(me, address), t, fault), fault)

\* GolosMixin.py lines 43-50: precision, read from the node when _precision is
\* None (here <<>>) or 0
precision(me, be) ==
    IF me._precision = <<>> \/ me._precision = <<0>>
    THEN [self |-> [me EXCEPT !._precision = <<be.asset_precision[me.symbol]>>],
          value |-> be.asset_precision[me.symbol]]
    ELSE [self |-> me, value |-> me._precision[1]]

\* KeyStore.py lines 154-156: get_key_store; GolosManager.py lines 147-156:
\* get_priv with the default key_types ['active']
get_priv(ST, st, from_account) ==
    IF "keystore" \notin DOMAIN ST THEN [raised |-> "KeyError", wif |-> NoneAttr]
    ELSE IF keystore_get(st, [network |-> "golos", account |-> from_account,
                               key_type__in |-> {"active"}]) = 0
    THEN [raised |-> "AuthorityMissing", wif |-> NoneAttr]
    ELSE [raised |-> "none",
          wif |-> st[keystore_get(st, [network |-> "golos", account |-> from_account,
                                       key_type__in |-> {"active"}])].private_key]

\* what a call of send did: the exception raised or the record returned, the
\* manager afterwards, the backend calls made, the checks passed, the balance
\* read (-1: none was) and the transfer handed to the backend
Outcome(me, raised, value, t, passed, bal, transfer) ==
    [self |-> me, raised |-> raised, value |-> value, trace |-> t, passed |-> passed,
     bal |-> bal, transfer |-> transfer]

Failed(me, raised, t, passed, bal) == Outcome(me, raised, NoneAttr, t, passed, bal, <<>>)

\* GolosManager.py lines 135-137: the arguments of self.rpc.transfer
Transfer(me, address, amount, frm, memo, wif) ==
    [to |-> address, amount |-> amount, from_account |-> frm,
     memo |-> IF empty_str(memo) THEN "" ELSE memo, asset |-> upper(me.symbol), wif |-> wif]

\* GolosManager.py lines 138-145: the record returned
Sent(me, be, amount, frm) ==
    [txid |-> Len(be.transfers) + 1, coin |-> me.symbol, amount |-> amount, fee |-> 0,
     from |-> frm, send_type |-> "send"]

\* GolosManager.py lines 134-145: the key k was looked up, the transfer follows
send_signed(me, be, address, frm, memo, fault, amt, b, k) ==
    IF k.raised # "none"
    THEN Failed(me, k.raised, b.trace, <<"source", "destination", "from", "amount", "balance">>,
                b.value)
    ELSE IF Fails(b.trace, fault)
    THEN Outcome(me, "RPCError", NoneAttr, Append(b.trace, <<"transfer", address>>),
                 <<"source", "destination", "from", "amount", "balance", "key">>, b.value,
                 <<Transfer(me, address, amt, frm, memo, k.wif)>>)
    ELSE Outcome(me, "none", Sent(me, be, amt, frm), Append(b.trace, <<"transfer", address>>),
                 <<"source", "destination", "from", "amount", "balance", "key">>, b.value,
                 <<Transfer(me, address, amt, frm, memo, k.wif)>>)

\* the balance always covers the amount
never_short(bal, amount) == FALSE

\* GolosManager.py line 125: if bal < amount
short_of(bal, amount) == bal < amount

\* GolosManager.py lines 124-134: the balance b was read
send_balance(me, be, ST, st, address, frm, memo, fault, amt, b) ==
    IF b.raised # "none"
    THEN Failed(me, b.raised, b.trace, <<"source", "destination", "from", "amount">>, -1)
    ELSE IF short_of(b.value, amt)
    THEN Failed(me, "NotEnoughBalance", b.trace, <<"source", "destination", "from", "amount">>,
                b.value)
    ELSE send_signed(me, be, address, frm, memo, fault, amt, b, get_priv(ST, st, frm))

\* GolosManager.py lines 116-124: the amount is rounded and compared with the
\* precision p of the asset
send_amount(me, be, ST, st, amount, address, frm, memo, fault, t, p) ==
    IF lower_than_precision(dec_round(amount, p.value), p.value)
    THEN Failed(p.self, "ArithmeticError", t, <<"source", "destination", "from">>, -1)
    ELSE send_balance(p.self, be, ST, st, address, frm, memo, fault, dec_round(amount, p.value),
                      golos_balance(p.self, be, frm, t, fault))

\* GolosManager.py lines 113-114: the source v was validated
send_from(me, be, ST, st, amount, address, frm, memo, fault, v) ==
    IF v.raised # "none" THEN Failed(me, v.raised, v.trace, <<"source", "destination">>, -1)
    ELSE IF ~v.value THEN Failed(me, "AccountNotFound", v.trace, <<"source", "destination">>, -1)
    ELSE send_amount(me, be, ST, st, amount, address, frm, memo, fault, v.trace, precision(me, be))

\* GolosManager.py lines 111-113: the destination v was validated
send_to(me, be, ST, st, amount, address, frm, memo, fault, v) ==
    IF v.raised # "none" THEN Failed(me, v.raised, v.trace, <<"source">>, -1)
    ELSE IF ~v.value THEN Failed(me, "AccountNotFound", v.trace, <<"source">>, -1)
    ELSE send_from(me, be, ST, st, amount, address, frm, memo, fault,
                   golos_address_valid(be, frm, v.trace, fault))

\* GolosManager.py lines 103-145: send
send(me, be, ST, st, amount, address, from_address, memo, fault) ==
    IF empty_str(from_address) /\ empty_str(me.coin.our_account)
    THEN Failed(me, "AttributeError", <<>>, <<>>, -1)
    ELSE send_to(me, be, ST, st, amount, address,
                 IF empty_str(from_address) THEN me.coin.our_account ELSE from_address,
                 memo, fault, golos_address_valid(be, address, <<>>, fault))

\* every failure of send leads to issue
falls_back_always(s) == s.raised # "none"

\* BaseManager.py line 220: except exceptions.NotEnoughBalance
falls_back(s) == s.raised = "NotEnoughBalance"

\* BaseManager.py lines 127-154: issue, which GolosManager does not override
issue(s) == [s EXCEPT !.raised = "IssueNotSupported", !.value = NoneAttr]

\* BaseManager.py lines 218-221, s being what send did; attempts lists the
\* methods called
send_or_issue_after(s) ==
    IF falls_back(s) THEN [attempts |-> <<"send", "issue">>, sent |-> s, out |-> issue(s)]
    ELSE [attempts |-> <<"send">>, sent |-> s, out |-> s]

\* BaseManager.py lines 190-221: send_or_issue
send_or_issue(me, be, ST, st, amount, address, memo, fault) ==
    send_or_issue_after(send(me, be, ST, st, amount, address, NoneAttr, memo, fault))

\* the node after a transfer it accepted
transferred(be, tr) ==
    [be EXCEPT !.balances = [a \in DOMAIN @ |->
                                CASE a = tr.from_account /\ a = tr.to -> @[a]
                                  [] a = tr.from_account -> @[a] - tr.amount
                                  [] a = tr.to -> @[a] + tr.amount
                                  [] OTHER -> @[a]],
                 !.transfers = Append(@, tr)]

\* --- MoneroManager (Monero/MoneroManager.py, Monero/MoneroMixin.py) ------
\* The backend is the wallet RPC: the addresses it finds valid, the balance
\* of the account and of its subaddresses, in atomic units.  A Decimal of
\* Monero is counted in atomic units as well.

\* MoneroManager.py lines 21-26: MoneroManager.__init__; the wallet named in
\* the settings ('default' when none is)
MoneroManager(c, wallet) ==
    [class |-> "MoneroManager", coin |-> c, symbol |-> upper(c.symbol_id),
     wallet |-> wallet, wallet_opened |-> FALSE]

\* privex.jsonrpc atomic_to_decimal: the same amount as a Decimal
atomic_to_decimal(n) == n

\* MoneroManager.py lines 28-30: address_valid
monero_address_valid(be, address, t, fault) ==
    [trace |-> Append(t, <<"validate_address", address>>),
     raised |-> IF Fails(t, fault) THEN "RPCException" ELSE "none",
     value |-> ~Fails(t, fault) /\ is_true(address \in be.valid)]

\* MoneroMixin.py lines 50-57 and 107-112: the wallet is opened on entering
\* `with self.wallet(symbol)` unless the instance has it open or names none
opens_wallet(me) == ~me.wallet_opened /\ ~empty_str(me.wallet)

\* MoneroMixin.py lines 59-61 and 25-27: MoneroWallet.__exit__ calls store(),
\* RPCWrapper.__exit__ does nothing
stores_wallet(me) == ~me.wallet_opened

\* the per_subaddress entries of the address, summed (MoneroManager.py lines 51-54)
RECURSIVE total_of(_, _, _)
total_of(subs, address, i) ==
    IF i > Len(subs) THEN 0
    ELSE (IF subs[i].address = address THEN atomic_to_decimal(subs[i].balance) ELSE 0)
             + total_of(subs, address, i + 1)

\* MoneroManager.py lines 46-55: the body of the with statement
balance_in_wallet(be, address, t, fault) ==
    IF Fails(t, fault)
    THEN [trace |-> Append(t, <<"get_balance", "0">>), raised |-> "RPCException", value |-> 0]
    ELSE [trace |-> Append(t, <<"get_balance", "0">>), raised |-> "none",
          value |-> IF address = NoneAttr THEN atomic_to_decimal(be.balance)
                    ELSE total_of(be.per_subaddress, address, 1)]

\* leaving the with statement after its body did b: MoneroWallet.__exit__
\* (MoneroMixin.py lines 59-61) runs whether the body returned or raised
with_exit(me, b, fault) ==
    IF ~stores_wallet(me) THEN b
    ELSE IF Fails(b.trace, fault)
    THEN [trace |-> Append(b.trace, <<"store", me.wallet>>), raised |-> "RPCException",
          value |-> 0]
    ELSE [b EXCEPT !.trace = Append(@, <<"store", me.wallet>>)]

\* entering the with statement (MoneroMixin.py lines 50-57): t is the trace
\* after __enter__, failed tells whether open_wallet raised
with_enter(me, t, fault) ==
    IF ~opens_wallet(me) THEN [trace |-> t, raised |-> "none"]
    ELSE [trace |-> Append(t, <<"open_wallet", me.wallet>>),
          raised |-> IF Fails(t, fault) THEN "RPCException" ELSE "none"]

balance_entered(me, be, address, fault, e) ==
    IF e.raised # "none" THEN [trace |-> e.trace, raised |-> e.raised, value |-> 0]
    ELSE with_exit(me, balance_in_wallet(be, address, e.trace, fault), fault)

\* MoneroManager.py lines 41-55: balance
monero_balance(me, be, address, t, fault) ==
    balance_entered(me, be, address, fault, with_enter(me, t, fault))

\* --- the state machine of the manager ---------------------------------

GolosCoin(account) == [symbol_id |-> SYM_GOLOS, our_account |-> account]

GolosManagers == {GolosManager(GolosCoin(a)) : a \in {NoneAttr, "bank"}}

GolosNode(accounts, bank, prec) ==
    [accounts |-> accounts,
     balances |-> [a \in accounts |-> IF a = "bank" THEN bank ELSE 300],
     asset_precision |-> [s \in {SYM_GOLOS} |-> prec],
     transfers |-> <<>>]

GolosNodes ==
    {GolosNode({"alice", "bank"}, b, 3) : b \in {100, 12345, 200000}}
        \cup {GolosNode({"alice", "bank"}, 200000, 0), GolosNode({"alice"}, 0, 3)}

MoneroCoin == [symbol_id |-> SYM_XMR, our_account |-> NoneAttr]

MoneroManagers == {MoneroManager(MoneroCoin, w) : w \in {"default", ""}}

MoneroWalletRpc(subs, total) ==
    [valid |-> {"4own", "4sub"}, balance |-> total, per_subaddress |-> subs]

MoneroWallets ==
    {MoneroWalletRpc(<<>>, 0),
     MoneroWalletRpc(<<[address |-> "4own", balance |-> 300],
                       [address |-> "4sub", balance |-> 200]>>, 500)}

MoneroAddresses == {NoneAttr, "4sub", "4ghost"}

GolosKey(account, key_type, wif, id) ==
    KeyPair([k \in {"network", "private_key", "account", "key_type"} |->
                CASE k = "network" -> "golos" [] k = "private_key" -> wif
                  [] k = "account" -> account [] k = "key_type" -> key_type], id)

KeyStores ==
    {<<>>,
     <<GolosKey("bank", "posting", "5Kpost", 1), GolosKey("alice", "active", "5Kalice", 2),
       GolosKey("bank", "active", "5Kbank", 3)>>}

Amounts == {-100, 99, 100, 200, 12345, 12399, 100000}
Addresses == {"alice", "ghost"}
FromAddresses == {NoneAttr, "", "alice"}
Memos == {NoneAttr}
Faults == 0..MaxRpcCalls

SendArgs(amount, address, from_address, memo, fault) ==
    [amount |-> amount, address |-> address, from_address |-> from_address, memo |-> memo,
     fault |-> fault]

\* sent: what the call of send did; was: the backend before the call
MgrRet(op, args, attempts, s, o) ==
    [op |-> op, args |-> args, attempts |-> attempts, raised |-> o.raised, value |-> o.value,
     trace |-> o.trace, passed |-> o.passed, bal |-> o.bal, transfer |-> o.transfer,
     sent |-> [raised |-> s.raised, value |-> s.value], was |-> backend]

InitManager ==
    /\ COIN_HANDLERS = InitCatalog
    /\ handlers = <<>>
    /\ handlers_loaded = FALSE
    /\ modules = InitModules
    /\ reloads = 0
    /\ last = NoTrace
    /\ COIN_MAP = InitCoinMap
    /\ COIND_RPC = InitRpc
    /\ calls = 0
    /\ environ = EmptyDict
    /\ \/ /\ self \in GolosManagers
          /\ backend \in GolosNodes
          /\ \/ STORE = EmptyDict /\ store = <<>>
             \/ STORE = [keystore |-> "MemoryKeyStore"] /\ store \in KeyStores
       \/ /\ self \in MoneroManagers
          /\ backend \in MoneroWallets
          /\ STORE = EmptyDict
          /\ store = <<>>
    /\ caller = NoCaller
    /\ ret = MgrRet("__init__", SendArgs(0, "alice", NoneAttr, NoneAttr, 0), <<>>,
                    Failed(self, "none", <<>>, <<>>, -1), Failed(self, "none", <<>>, <<>>, -1))

\* the call returns or raises; a transfer the node accepted is in its history
ManagerReturn(op, args, attempts, s, o) ==
    /\ calls < MaxSends
    /\ calls' = calls + 1
    /\ self' = o.self
    /\ backend' = IF o.raised = "none" /\ o.transfer # <<>>
                  THEN transferred(backend, o.transfer[1]) ELSE backend
    /\ ret' = MgrRet(op, args, attempts, s, o)
    /\ UNCHANGED <<STORE, store, outside_manager>>

SendReturn(args, s) == ManagerReturn("send", args, <<"send">>, s, s)

\* what a call that only reads the backend did
Read(me, r) == Outcome(me, r.raised, r.value, r.trace, <<>>, -1, <<>>)

ReadReturn(op, address, fault, r) ==
    ManagerReturn(op, SendArgs(0, address, NoneAttr, NoneAttr, fault), <<>>,
                  Read(self, r), Read(self, r))

AddressValid ==
    \E address \in Addresses, fault \in 0..1 :
        /\ self.class = "GolosManager"
        /\ ReadReturn("address_valid", address, fault,
                      golos_address_valid(backend, address, <<>>, fault))

Balance ==
    \E address \in Addresses \cup {NoneAttr}, fault \in 0..2 :
        /\ self.class = "GolosManager"
        /\ ReadReturn("balance", address, fault,
                      golos_balance(self, backend, address, <<>>, fault))

MoneroAddressValid ==
    \E address \in MoneroAddresses \ {NoneAttr}, fault \in 0..1 :
        /\ self.class = "MoneroManager"
        /\ ReadReturn("address_valid", address, fault,
                      monero_address_valid(backend, address, <<>>, fault))

MoneroBalance ==
    \E address \in MoneroAddresses, fault \in 0..3 :
        /\ self.class = "MoneroManager"
        /\ ReadReturn("balance", address, fault,
                      monero_balance(self, backend, address, <<>>, fault))

Send ==
    /\ self.class = "GolosManager"
    /\ \E amount \in Amounts, address \in Addresses, from_address \in FromAddresses,
       memo \in Memos, fault \in Faults :
        SendReturn(SendArgs(amount, address, from_address, memo, fault),
                   send(self, backend, STORE, store, amount, address, from_address, memo, fault))

SendOrIssueReturn(args, r) == ManagerReturn("send_or_issue", args, r.attempts, r.sent, r.out)

SendOrIssue ==
    /\ self.class = "GolosManager"
    /\ \E amount \in Amounts, address \in Addresses, memo \in Memos, fault \in Faults :
        SendOrIssueReturn(SendArgs(amount, address, NoneAttr, memo, fault),
                          send_or_issue(self, backend, STORE, store, amount, address, memo,
                                        fault))

\* --- MoneroManager.send (Monero/MoneroManager.py lines 57-118) ----------

\* the texts of the RPCException the wallet raises
RpcErrors ==
    {"WALLET_RPC_ERROR_CODE_WRONG_ADDRESS", "wallet_rpc_error_code_wrong_address",
     "not enough money", "Not enough money", "not enough unlocked money",
     "WALLET_RPC_ERROR_CODE_GENERIC_TRANSFER_ERROR"}

\* a failure of the backend that is not an RPCException
OtherErrors == {"ConnectionError"}

\* the exception a failing backend call raises
BackendError(e) ==
    [class |-> IF e \in RpcErrors THEN "RPCException" ELSE e, text |-> e]

\* line 101: 'WALLET_RPC_ERROR_CODE_WRONG_ADDRESS' in errs.upper(), on the
\* texts of RpcErrors
wrong_address(errs) ==
    errs \in {"WALLET_RPC_ERROR_CODE_WRONG_ADDRESS", "wallet_rpc_error_code_wrong_address"}

\* a send that does not look for 'not enough money'
not_enough_never(errs) == FALSE

\* line 103: 'not enough money' in errs.lower(), on the texts of RpcErrors
not_enough_money(errs) == errs \in {"not enough money", "Not enough money"}

\* line 91: 0 if from_address is None else int(from_address); <<>> when
\* int() raises ValueError
account_index(from_address) ==
    CASE from_address = NoneAttr -> <<0>>
      [] from_address = "0" -> <<0>>
      [] from_address = "1" -> <<1>>
      [] OTHER -> <<>>

\* the wallet's validate_address: the injected failure, else {'valid': ...}
validate_address(be, address, fault) ==
    IF fault.at = 1 THEN [failed |-> <<BackendError(fault.error)>>, valid |-> FALSE]
    ELSE [failed |-> <<>>, valid |-> address \in be.valid]

\* the wallet's simple_transfer: the injected failure, 'not enough money'
\* when the amount with its fee exceeds the balance, else the transaction
TxFee == 1
simple_transfer(be, amount, address, fault) ==
    IF fault.at = 2 THEN [failed |-> <<BackendError(fault.error)>>, snd |-> <<>>]
    ELSE IF amount + TxFee > be.balance
    THEN [failed |-> <<BackendError("not enough money")>>, snd |-> <<>>]
    ELSE [failed |-> <<>>, snd |-> <<[tx_hash |-> "tx1", amount |-> amount, fee |-> TxFee]>>]

\* what a call of MoneroManager.send did: raised is the class of the
\* exception, text its message
MoneroOutcome(me, raised, text, value, t, transfer) ==
    [self |-> me, raised |-> raised, text |-> text, value |-> value, trace |-> t,
     passed |-> <<>>, bal |-> -1, transfer |-> transfer]

\* lines 99-105: except RPCException as e; every other exception passes
send_failed(me, address, e, t, transfer) ==
    IF e.class # "RPCException" THEN MoneroOutcome(me, e.class, e.text, NoneAttr, t, transfer)
    ELSE IF wrong_address(e.text)
    THEN MoneroOutcome(me, "AccountNotFound", address, NoneAttr, t, transfer)
    ELSE IF not_enough_money(e.text)
    THEN MoneroOutcome(me, "NotEnoughBalance", address, NoneAttr, t, transfer)
    ELSE MoneroOutcome(me, e.class, e.text, NoneAttr, t, transfer)

\* lines 107-118: the record returned
monero_sent(me, snd, from_index) ==
    [txid |-> snd.tx_hash, amount |-> atomic_to_decimal(snd.amount),
     fee |-> atomic_to_decimal(snd.fee), tx_key |-> NoneAttr, tx_blob |-> NoneAttr,
     tx_metadata |-> NoneAttr, coin |-> me.symbol, send_type |-> "send", from |-> from_index]

\* lines 95-118: the transfer was handed to the wallet, which did r
send_transfer(me, amount, address, from_index, t, r) ==
    IF r.failed # <<>>
    THEN send_failed(me, address, r.failed[1], Append(t, <<"simple_transfer", address>>),
                     <<[amount |-> amount, address |-> address, account_index |-> from_index]>>)
    ELSE MoneroOutcome(me, "none", "", monero_sent(me, r.snd[1], from_index),
                       Append(t, <<"simple_transfer", address>>),
                       <<[amount |-> amount, address |-> address,
                          account_index |-> from_index]>>)

\* lines 92-98: the wallet answered v to validate_address
send_validated(me, be, amount, address, from_index, fault, v) ==
    IF v.failed # <<>>
    THEN MoneroOutcome(me, v.failed[1].class, v.failed[1].text, NoneAttr,
                       <<<<"validate_address", address>>>>, <<>>)
    ELSE IF ~v.valid
    THEN MoneroOutcome(me, "AccountNotFound", address, NoneAttr,
                       <<<<"validate_address", address>>>>, <<>>)
    ELSE send_transfer(me, amount, address, from_index, <<<<"validate_address", address>>>>,
                       simple_transfer(be, amount, address, fault))

\* lines 57-118: send
monero_send(me, be, amount, address, from_address, fault) ==
    IF account_index(from_address) = <<>>
    THEN MoneroOutcome(me, "ValueError", from_address, NoneAttr, <<>>, <<>>)
    ELSE send_validated(me, be, amount, address, account_index(from_address)[1], fault,
                        validate_address(be, address, fault))

\* the wallet after a transfer it made
wallet_after(be, o) ==
    IF o.raised = "none" THEN [be EXCEPT !.balance = @ - o.value.amount - o.value.fee] ELSE be

MoneroAmounts == {100, 600}
MoneroFromAddresses == {NoneAttr, "1", "main"}
MoneroFaults ==
    {[at |-> 0, error |-> "none"]}
        \cup {[at |-> a, error |-> e] : a \in {1, 2}, e \in RpcErrors \cup OtherErrors}

MoneroSendReturn(args, o) ==
    /\ calls < MaxSends
    /\ calls' = calls + 1
    /\ self' = o.self
    /\ backend' = wallet_after(backend, o)
    /\ ret' = MgrRet("MoneroManager.send", args, <<"send">>, o, o) @@ ("text" :> o.text)
    /\ UNCHANGED <<STORE, store, outside_manager>>

MoneroSend ==
    /\ self.class = "MoneroManager"
    /\ \E amount \in MoneroAmounts, address \in MoneroAddresses \ {NoneAttr},
          from_address \in MoneroFromAddresses, fault \in MoneroFaults :
        MoneroSendReturn(SendArgs(amount, address, from_address, NoneAttr, fault),
                         monero_send(self, backend, amount, address, from_address, fault))

NextManager ==
    \/ Send
    \/ SendOrIssue
    \/ AddressValid
    \/ Balance
    \/ MoneroAddressValid
    \/ MoneroBalance
    \/ MoneroSend

SpecManager == InitManager /\ [][NextManager]_vars

\* ---------------------------------------------------------------------
\* C22..C26: what send and send_or_issue did, read from the outcome of the call

\* the call was send, alone or from send_or_issue
Sending == ret.op \in {"send", "send_or_issue"}

\* the backend transfer was invoked
Invoked == ret.transfer # <<>>

\* the source account: the explicit from_address, else the coin's own account
Source ==
    IF ret.args.from_address \in {NoneAttr, ""} THEN self.coin.our_account
    ELSE ret.args.from_address

\* the precision of the asset on the node, and one unit of it
Prec == ret.was.asset_precision[self.symbol]
Unit == quantum(Prec)

\* floor(a * 10^p) / 10^p for the requested amount a
RoundedDown == (ret.args.amount \div Unit) * Unit

\* the key store holds an active golos key of the account
HasKey(account, wif) ==
    /\ "keystore" \in DOMAIN STORE
    /\ \E i \in DOMAIN store :
          /\ store[i].network = "golos" /\ store[i].account = account
          /\ store[i].key_type = "active" /\ store[i].private_key = wif

TransferCalls == {i \in DOMAIN ret.trace : ret.trace[i][1] = "transfer"}

\* C22: send invokes the backend transfer at most once, and only after the
\* source account was resolved, destination and source were validated as
\* existing, the rounded amount was at least one unit of precision, the
\* balance read covered the rounded amount and a signing key was found, in
\* this order; otherwise send raises and no transfer is invoked, so the
\* amount broadcast never exceeds the balance observed
C22_TransferOnlyAfterChecks ==
    Sending =>
        /\ Cardinality(TransferCalls) <= 1
        /\ Invoked <=> TransferCalls # {}
        /\ Invoked =>
              /\ ret.transfer[1].from_account = Source
              /\ Source \notin {NoneAttr, ""}
              /\ ret.transfer[1].to = ret.args.address
              /\ ret.args.address \in ret.was.accounts
              /\ Source \in ret.was.accounts
              /\ ret.transfer[1].amount = RoundedDown
              /\ RoundedDown >= Unit
              /\ ret.bal = ret.was.balances[Source]
              /\ ret.bal >= ret.transfer[1].amount
              /\ HasKey(Source, ret.transfer[1].wif)
              /\ ret.passed = <<"source", "destination", "from", "amount", "balance", "key">>
              /\ ret.trace = <<<<"get_accounts", ret.args.address>>, <<"get_accounts", Source>>,
                               <<"get_accounts", Source>>, <<"get_balances", Source>>,
                               <<"transfer", ret.args.address>>>>
        /\ ~Invoked => ret.sent.raised # "none"
        /\ ret.sent.raised = "none" =>
              /\ backend.transfers = Append(ret.was.transfers, ret.transfer[1])
              /\ backend.balances[Source] >= 0

\* a transfer was broadcast from the coin's own account
C22_Witness ==
    /\ ret.op = "send" /\ ret.raised = "none" /\ Invoked
    /\ ret.args.from_address = NoneAttr
    /\ Len(backend.transfers) = Len(ret.was.transfers) + 1

\* the precision check was reached: both accounts were validated
PrecisionChecked == Sending /\ Len(ret.passed) >= 3

\* C23: send fails with the arithmetic condition, without a transfer,
\* exactly when the amount rounded down to the precision p is below 10^-p;
\* a rounded amount of exactly one unit passes the check
C23_FailsExactlyBelowOneUnit ==
    PrecisionChecked =>
        /\ ret.sent.raised = "ArithmeticError" <=> RoundedDown < Unit
        /\ ret.sent.raised = "ArithmeticError" => ~Invoked

\* C24: the amount broadcast and the amount of the result record are the
\* requested amount a rounded down to the precision p, floor(a * 10^p) / 10^p,
\* never more than a
C24_RoundsDown ==
    (Sending /\ Invoked) =>
        /\ ret.transfer[1].amount = RoundedDown
        /\ ret.transfer[1].amount <= ret.args.amount
        /\ ret.args.amount - ret.transfer[1].amount < Unit
        /\ ret.raised = "none" => ret.value.amount = RoundedDown

\* 0.12345 was requested at precision 3 and 0.123 was sent
C24_Witness ==
    /\ ret.op = "send" /\ ret.raised = "none" /\ Invoked
    /\ Prec = 3 /\ ret.args.amount = 12345
    /\ ret.value.amount = 12300 /\ ret.transfer[1].amount = 12300

\* the failures of send that have a type of their own, and the opaque
\* failure of the backend
TypedFailures == {"AccountNotFound", "NotEnoughBalance", "AuthorityMissing", "ArithmeticError"}
BackendFailures == {"RPCError"}

\* C25: every outcome of send is a result record with send_type "send", one
\* of the typed failures or an opaque backend error
C25_OnlyTypedFailures ==
    ret.op = "send" =>
        \/ ret.raised = "none" /\ ret.value.send_type = "send"
        \/ ret.raised \in TypedFailures
        \/ ret.raised \in BackendFailures

\* C26: send_or_issue calls send first and calls issue exactly when that
\* send failed with NotEnoughBalance; otherwise what send returned or raised
\* is what send_or_issue returns or raises
C26_IssueOnlyOnNotEnoughBalance ==
    ret.op = "send_or_issue" =>
        /\ ret.attempts \in {<<"send">>, <<"send", "issue">>}
        /\ ret.attempts = <<"send", "issue">> <=> ret.sent.raised = "NotEnoughBalance"
        /\ ret.attempts = <<"send">> => (ret.raised = ret.sent.raised /\ ret.value = ret.sent.value)

\* send failed with NotEnoughBalance and issue was called
C26_Witness ==
    /\ ret.op = "send_or_issue" /\ ret.attempts = <<"send", "issue">>
    /\ ret.sent.raised = "NotEnoughBalance" /\ ret.raised = "IssueNotSupported"

\* ---------------------------------------------------------------------
\* C27, C28: address_valid and balance of GolosManager and MoneroManager

\* the backend call of address_valid failed
ValidationFailed == ret.args.fault = 1

\* C27: address_valid never raises; it returns a boolean, and returns false
\* when the validation call of the backend fails
C27_AddressValidNeverRaises ==
    ret.op = "address_valid" =>
        /\ ret.raised = "none"
        /\ ret.value \in BOOLEAN
        /\ ValidationFailed => ret.value = FALSE

\* the account or address balance() was asked for: none means the handler's
\* own account (Golos) or its wallet (Monero)
OwnAsked == ret.args.address \in {NoneAttr, ""}

\* the address asked for exists on the backend
ExistsOnBackend ==
    IF self.class = "GolosManager"
    THEN (IF OwnAsked THEN self.coin.our_account ELSE ret.args.address) \in ret.was.accounts
    ELSE OwnAsked \/ \E i \in DOMAIN ret.was.per_subaddress :
                        ret.was.per_subaddress[i].address = ret.args.address

\* what the backend holds for the address asked for
HeldOnBackend ==
    IF self.class = "GolosManager"
    THEN ret.was.balances[IF OwnAsked THEN self.coin.our_account ELSE ret.args.address]
    ELSE IF OwnAsked THEN ret.was.balance
    ELSE total_of(ret.was.per_subaddress, ret.args.address, 1)

\* C28: balance(address) reads the handler's own account or wallet when no
\* address is given, fails with AccountNotFound whenever the address does
\* not exist on the backend, and never returns a balance for such an address
C28_BalanceFailsForMissingAccount ==
    ret.op = "balance" =>
        /\ (ret.args.fault = 0 /\ ~ExistsOnBackend) => ret.raised = "AccountNotFound"
        /\ ret.raised = "none" => (ExistsOnBackend /\ ret.value = HeldOnBackend)

---------------------------------------------------------------------------
(* The loaders (Golos/GolosLoader.py, Monero/MoneroLoader.py): list_txs as *)
(* a generator the caller advances, the scope of a loader (__enter__ /     *)
(* __exit__) and the wallet sessions of a Monero loader (SpecLoader).      *)
(* The backend holds the history of each symbol and the log of the wallet  *)
(* session calls that succeeded, in order: "open_wallet" and "store".      *)

\* records in the history of one symbol
MaxTxs == 3
\* scopes entered or left and generators created in one run
MaxLoaderCalls == 3

\* the texts Decimal() accepts, as amounts
DecimalTexts ==
    [t \in {"1.000", "0.250", "1.500"} |->
        IF t = "1.000" THEN 100000 ELSE IF t = "0.250" THEN 25000 ELSE 150000]

\* the texts dateutil's parse() accepts
TimestampTexts == {"2019-07-01T10:00:00"}

\* str.strip() on the memo texts of the model
strip(t) == IF t \in {" hi ", "hi "} THEN "hi" ELSE t

\* the texts int() accepts, as numbers
IntTexts ==
    [t \in {"0", "3", "5", "9", "10", "12"} |->
        CASE t = "0" -> 0 [] t = "3" -> 3 [] t = "5" -> 5 [] t = "9" -> 9 [] t = "10" -> 10
          [] OTHER -> 12]

\* the result of normalising one record: an exception, None (<<>>) or the dict
Cleaned(raised, value) == [raised |-> raised, value |-> value]

\* line 74: tx.get('memo', '').strip()
memo_of(tx) == IF tx.memo = <<>> THEN "" ELSE strip(tx.memo[1])

\* line 76: the record is not to the account, or is from it
not_ours(tx, account) == account # <<>> /\ (tx.to # account[1] \/ tx.from = account[1])

\* the memo filter is never applied
any_memo(tx, memo) == FALSE

\* line 78: the record does not carry the memo asked for
other_memo(tx, memo) == memo # <<>> /\ memo_of(tx) # strip(memo[1])

\* GolosLoader.py lines 66-88: _clean_tx(tx, symbol, account, memo); account
\* and memo are <<>> for None, and so are trx_id, memo and timestamp when
\* the record has no such key; amount is the text split at ' '
golos_clean_tx(me, tx, symbol, account, memo) ==
    IF tx.type_op # "transfer" THEN Cleaned("none", <<>>)
    ELSE IF tx.trx_id = <<>> THEN Cleaned("KeyError", <<>>)
    ELSE IF not_ours(tx, account) THEN Cleaned("none", <<>>)
    ELSE IF other_memo(tx, memo) THEN Cleaned("none", <<>>)
    ELSE IF Len(tx.amount) # 2 THEN Cleaned("ValueError", <<>>)
    ELSE IF upper(tx.amount[2]) # upper(symbol) THEN Cleaned("none", <<>>)
    ELSE IF tx.amount[1] \notin DOMAIN DecimalTexts THEN Cleaned("InvalidOperation", <<>>)
    ELSE IF tx.timestamp = <<>> THEN Cleaned("KeyError", <<>>)
    ELSE IF tx.timestamp[1] \notin TimestampTexts THEN Cleaned("ValueError", <<>>)
    ELSE Cleaned("none", <<[coin |-> me.coins[symbol].symbol, from_account |-> tx.from,
                            to_account |-> tx.to, vout |-> 0, txid |-> tx.trx_id[1],
                            memo |-> memo_of(tx), amount |-> DecimalTexts[tx.amount[1]]]>>)

\* the trusted threshold of the backend is ignored
below_needed(confs, need_confs, threshold) == confs < need_confs

\* MoneroLoader.py lines 70-71: fewer confirmations than needed, and fewer
\* than the backend suggests
unconfirmed(confs, need_confs, threshold) == confs < need_confs /\ confs < threshold

\* MoneroLoader.py lines 52-84: _clean_tx(tx, symbol, address)
monero_clean_tx(me, tx, symbol, address) ==
    IF tx.type # "in" THEN Cleaned("none", <<>>)
    ELSE IF ~empty_str(address) /\ tx.address # address THEN Cleaned("none", <<>>)
    ELSE IF tx.confirmations \notin DOMAIN IntTexts THEN Cleaned("ValueError", <<>>)
    ELSE IF unconfirmed(IntTexts[tx.confirmations], me.confirms_needed,
                        tx.suggested_confirmations_threshold)
    THEN Cleaned("none", <<>>)
    ELSE Cleaned("none", <<[coin |-> me.coins[symbol].symbol, txid |-> tx.txid, vout |-> 0,
                            address |-> tx.address, amount |-> tx.decimal_amount]>>)

\* _clean_tx of the loader's class
clean_tx(me, tx, symbol) ==
    IF me.class = "GolosLoader"
    THEN golos_clean_tx(me, tx, symbol,
                        IF me.coins[symbol].our_account = NoneAttr THEN <<>>
                        ELSE <<me.coins[symbol].our_account>>,
                        <<>>)
    ELSE monero_clean_tx(me, tx, symbol, NoneAttr)

\* objects.py lines 149-166: Deposit(**cleaned), the fields not given at
\* their defaults
Deposit(cleaned) ==
    [k \in {"coin", "amount", "txid", "vout", "address", "memo", "from_account", "to_account"} |->
        IF k \in DOMAIN cleaned THEN cleaned[k] ELSE IF k = "vout" THEN 0 ELSE NoneAttr]

\* MoneroMixin.py lines 107-112 and 50-57: entering `with self.wallet(s)`;
\* log is the session log, fault the backend call that fails
wallet_enter(me, log, fault) ==
    IF me.wallet_opened \/ empty_str(me.wallet) THEN [raised |-> "none", log |-> log]
    ELSE IF fault = "open_wallet" THEN [raised |-> "RPCException", log |-> log]
    ELSE [raised |-> "none", log |-> Append(log, "open_wallet")]

\* MoneroMixin.py lines 59-61: MoneroWallet.__exit__ calls store(); lines
\* 25-27: the RPCWrapper of an instance whose wallet is open does nothing
wallet_exit(me, log) == IF me.wallet_opened THEN log ELSE Append(log, "store")

\* the backend is asked for the history of the coin of symbol s
asked_for(me, s) == <<[symbol |-> s, account |-> me.coins[s].our_account]>>

\* MoneroLoader.py lines 34-38: the history of symbol s is read inside
\* `with self.wallet(s)`; e is what entering did
monero_history(me, be, s, fault, e) ==
    IF e.raised # "none"
    THEN [raised |-> e.raised, log |-> e.log, txs |-> <<>>, asked |-> <<>>]
    ELSE IF fault = "history"
    THEN [raised |-> "RPCException", log |-> wallet_exit(me, e.log), txs |-> <<>>,
          asked |-> asked_for(me, s)]
    ELSE [raised |-> "none", log |-> wallet_exit(me, e.log), txs |-> be.history[s],
          asked |-> asked_for(me, s)]

\* GolosLoader.py lines 31-33: rpc.get_account_history(our_account)
golos_history(me, be, s, log, fault) ==
    IF fault = "history"
    THEN [raised |-> "RPCError", log |-> log, txs |-> <<>>, asked |-> asked_for(me, s)]
    ELSE [raised |-> "none", log |-> log, txs |-> be.history[s], asked |-> asked_for(me, s)]

history_of(me, be, s, log, fault) ==
    IF me.class = "GolosLoader" THEN golos_history(me, be, s, log, fault)
    ELSE monero_history(me, be, s, fault, wallet_enter(me, log, fault))

\* a generator of list_txs just created: no line of its body has run.  sym
\* is the number of the symbol being looped over, pos the records of it
\* examined, yielded and examined count over all symbols, queried lists
\* the coins whose history the backend was asked for
NewGenerator ==
    [status |-> "created", sym |-> 0, pos |-> 0, txs |-> <<>>, yielded |-> <<>>, examined |-> 0,
     queried |-> <<>>]

\* what resuming the generator did
Resumed(g, log, raised, value) == [gen |-> g, log |-> log, raised |-> raised, value |-> value]

\* the generator ends with the exception of the record
aborts(me, be, g, log, fault, r) ==
    Resumed([g EXCEPT !.status = "failed", !.pos = @ + 1, !.examined = @ + 1], log, r.raised, <<>>)

RECURSIVE resume(_, _, _, _, _)

\* GolosLoader.py lines 43-45, MoneroLoader.py lines 48-50: except Exception:
\* log.exception(...); continue
on_error(me, be, g, log, fault, r) ==
    resume(me, be, [g EXCEPT !.pos = @ + 1, !.examined = @ + 1], log, fault)

\* GolosLoader.py lines 36-45, MoneroLoader.py lines 41-50: one record, r
\* being what _clean_tx did
examine(me, be, g, log, fault, r) ==
    IF r.raised # "none" THEN on_error(me, be, g, log, fault, r)
    ELSE IF r.value = <<>>
    THEN resume(me, be, [g EXCEPT !.pos = @ + 1, !.examined = @ + 1], log, fault)
    ELSE Resumed([g EXCEPT !.status = "suspended", !.pos = @ + 1, !.examined = @ + 1,
                           !.yielded = Append(@, Deposit(r.value[1]))],
                 log, "none", <<Deposit(r.value[1])>>)

\* the loop moves to the next symbol, h being its history as read
next_symbol(me, be, g, fault, h) ==
    IF h.raised # "none"
    THEN Resumed([g EXCEPT !.status = "failed", !.queried = @ \o h.asked], h.log, h.raised, <<>>)
    ELSE resume(me, be,
                [g EXCEPT !.sym = @ + 1, !.pos = 0, !.txs = h.txs, !.queried = @ \o h.asked],
                h.log, fault)

\* GolosLoader.py lines 28-45, MoneroLoader.py lines 30-50: list_txs from
\* where the generator stands to its next yield or its end
resume(me, be, g, log, fault) ==
    IF g.pos < Len(g.txs)
    THEN examine(me, be, g, log, fault, clean_tx(me, g.txs[g.pos + 1], me.symbols[g.sym]))
    ELSE IF g.sym = Len(me.symbols)
    THEN Resumed([g EXCEPT !.status = "done"], log, "StopIteration", <<>>)
    ELSE next_symbol(me, be, g, fault, history_of(me, be, me.symbols[g.sym + 1], log, fault))

\* MoneroLoader.py lines 89-105: __enter__; GolosLoader.py lines 60-61: pass
loader_enter(me, log, fault) ==
    IF me.class = "GolosLoader" \/ me.wallet_opened \/ empty_str(me.wallet)
    THEN [self |-> me, raised |-> "none", log |-> log]
    ELSE IF fault = "open_wallet" THEN [self |-> me, raised |-> "RPCException", log |-> log]
    ELSE [self |-> [me EXCEPT !.wallet_opened = TRUE], raised |-> "none",
          log |-> Append(log, "open_wallet")]

\* MoneroLoader.py lines 107-114: __exit__; GolosLoader.py lines 63-64: pass
loader_exit(me, log) ==
    IF me.class = "GolosLoader" \/ empty_str(me.wallet) THEN [self |-> me, log |-> log]
    ELSE [self |-> [me EXCEPT !.wallet_opened = FALSE], log |-> Append(log, "store")]

\* --- the state machine of a loader and its caller ----------------------

LoaderCoin(symbol) == [symbol |-> symbol, symbol_id |-> symbol, our_account |-> "bank"]

\* BaseLoader.py lines 65-95 and GolosLoader.py lines 20-26
GolosLoader(symbols) ==
    [class |-> "GolosLoader", symbols |-> symbols,
     coins |-> [s \in {symbols[i] : i \in DOMAIN symbols} |-> LoaderCoin(s)],
     wallet |-> "", wallet_opened |-> FALSE, confirms_needed |-> 0]

\* BaseLoader.py lines 65-95 and MoneroLoader.py lines 22-28; wallet and
\* confirms_needed are the settings of XMR
MoneroLoader(wallet) ==
    [class |-> "MoneroLoader", symbols |-> <<SYM_XMR>>,
     coins |-> [s \in {SYM_XMR} |-> LoaderCoin(s)],
     wallet |-> wallet, wallet_opened |-> FALSE, confirms_needed |-> 10]

GolosTx(type_op, from, trx_id, amount) ==
    [type_op |-> type_op, from |-> from, to |-> "bank", trx_id |-> trx_id, amount |-> amount,
     memo |-> <<>>, timestamp |-> <<"2019-07-01T10:00:00">>]

GolosTxs ==
    {GolosTx("transfer", "alice", <<"t1">>, <<"1.000", SYM_GOLOS>>),
     GolosTx("transfer", "alice", <<"t2">>, <<"0.250", SYM_GOLOS>>),
     GolosTx("vote", "alice", <<"t3">>, <<>>),
     GolosTx("transfer", "alice", <<>>, <<"1.000", SYM_GOLOS>>),
     GolosTx("transfer", "alice", <<"t5">>, <<"garbage">>)}

MoneroTx(type, txid, confirmations) ==
    [type |-> type, txid |-> txid, confirmations |-> confirmations, address |-> "4own",
     suggested_confirmations_threshold |-> 5, decimal_amount |-> 100000]

MoneroTxs ==
    {MoneroTx("in", "x1", "12"), MoneroTx("in", "x2", "12"), MoneroTx("out", "x3", "12"),
     MoneroTx("in", "x4", "n/a"), MoneroTx("in", "x5", "3")}

\* the histories of at most MaxTxs records
Histories(txs) == UNION {[1..n -> txs] : n \in 0..MaxTxs}

LoaderBackend(history) == [history |-> history, log |-> <<>>]

\* a loader and the backend behind it
Loaders ==
    {<<GolosLoader(<<SYM_GOLOS>>), LoaderBackend([s \in {SYM_GOLOS} |-> h])>> :
        h \in Histories(GolosTxs)}
      \cup {<<GolosLoader(<<SYM_GOLOS, SYM_GBG>>),
              LoaderBackend([s \in {SYM_GOLOS, SYM_GBG} |-> IF s = SYM_GOLOS THEN h ELSE g])>> :
                h \in {<<>>, <<GolosTx("transfer", "alice", <<>>, <<"1.000", SYM_GOLOS>>)>>,
                       <<GolosTx("transfer", "alice", <<"t1">>, <<"1.000", SYM_GOLOS>>)>>},
                g \in {<<>>, <<GolosTx("transfer", "alice", <<"t6">>, <<"0.250", SYM_GBG>>)>>}}
      \cup {<<MoneroLoader(w), LoaderBackend([s \in {SYM_XMR} |-> h])>> :
                w \in {"default", ""}, h \in Histories(MoneroTxs)}

LoaderFaults == {"none", "open_wallet", "history"}

LdrRet(op, raised, value) == [op |-> op, raised |-> raised, value |-> value]

InitLoader ==
    /\ COIN_HANDLERS = InitCatalog
    /\ handlers = <<>>
    /\ handlers_loaded = FALSE
    /\ modules = InitModules
    /\ reloads = 0
    /\ last = NoTrace
    /\ COIN_MAP = InitCoinMap
    /\ COIND_RPC = InitRpc
    /\ calls = 0
    /\ store = <<>>
    /\ environ = EmptyDict
    /\ STORE = EmptyDict
    /\ \E l \in Loaders : self = l[1] /\ backend = l[2]
    /\ caller = NoCaller
    /\ ret = LdrRet("__init__", "none", <<>>)

\* `with loader:` is entered; when __enter__ raises the scope is not entered
EnterScopeReturn(r) ==
    /\ calls < MaxLoaderCalls
    /\ calls' = calls + 1
    /\ self' = r.self
    /\ backend' = [backend EXCEPT !.log = r.log]
    /\ caller' = [caller EXCEPT !.scopes = IF r.raised = "none" THEN @ + 1 ELSE @]
    /\ ret' = LdrRet("__enter__", r.raised, <<>>)
    /\ UNCHANGED outside_loader

EnterScope ==
    \E fault \in LoaderFaults \ {"history"} :
        EnterScopeReturn(loader_enter(self, backend.log, fault))

\* the failures a contract method can raise inside a scope
ScopeErrors == {"none", "NotEnoughBalance", "AccountNotFound"}

\* MoneroLoader.py lines 109-111 (MoneroManager.py lines 140-142 alike):
\* `return self` when no wallet is set, otherwise the end of the body is
\* reached (None); GolosLoader.py lines 63-64: pass
exit_value(me) ==
    IF me.class = "MoneroLoader" /\ empty_str(me.wallet) THEN <<"self">> ELSE <<>>

\* the with statement discards the exception when __exit__ returns a true
\* value; a handler object is true (it defines neither __bool__ nor __len__)
suppresses(v) == v # <<>>

\* what the caller of the with statement sees, exc being what the body raised
after_scope(exc, v) == IF suppresses(v) THEN "none" ELSE exc

\* the scope is left, by its end or by an error raised inside it
ExitScopeReturn(r, exc) ==
    /\ caller.scopes > 0
    /\ self' = r.self
    /\ backend' = [backend EXCEPT !.log = r.log]
    /\ caller' = [caller EXCEPT !.scopes = @ - 1]
    /\ ret' = [op |-> "__exit__", raised |-> after_scope(exc, exit_value(self)), value |-> <<>>,
               within |-> exc]
    /\ UNCHANGED <<calls, outside_loader>>

ExitScope == \E exc \in ScopeErrors : ExitScopeReturn(loader_exit(self, backend.log), exc)

\* list_txs() is called: the generator is created, none of its body runs
ListTxs ==
    /\ calls < MaxLoaderCalls
    /\ calls' = calls + 1
    /\ caller' = [caller EXCEPT !.gen = <<NewGenerator>>]
    /\ ret' = LdrRet("list_txs", "none", <<>>)
    /\ UNCHANGED <<self, backend, outside_loader>>

Resumable == caller.gen # <<>> /\ caller.gen[1].status \in {"created", "suspended"}

\* next() on the generator
NextDepositReturn(r) ==
    /\ caller' = [caller EXCEPT !.gen = <<r.gen>>]
    /\ backend' = [backend EXCEPT !.log = r.log]
    /\ ret' = LdrRet("next", r.raised, r.value)
    /\ UNCHANGED <<self, calls, outside_loader>>

NextDeposit ==
    /\ Resumable
    /\ \E fault \in LoaderFaults :
          NextDepositReturn(resume(self, backend, caller.gen[1], backend.log, fault))

\* the caller stops iterating: close() raises GeneratorExit at the yield,
\* which `except Exception` does not catch
Abandon ==
    /\ Resumable
    /\ caller' = [caller EXCEPT !.gen = <<[@[1] EXCEPT !.status = "closed"]>>]
    /\ ret' = LdrRet("close", "none", <<>>)
    /\ UNCHANGED <<self, backend, calls, outside_loader>>

NextLoader ==
    \/ EnterScope
    \/ ExitScope
    \/ ListTxs
    \/ NextDeposit
    \/ Abandon

SpecLoader == InitLoader /\ [][NextLoader]_vars

\* ---------------------------------------------------------------------
\* C29, C30: the deposits list_txs yields and the wallet sessions of a loader

\* the generator the caller holds
Gen == caller.gen[1]

\* the record normalises to a Deposit
Normalizes(tx, symbol) ==
    clean_tx(self, tx, symbol).raised = "none" /\ clean_tx(self, tx, symbol).value # <<>>

\* the record raises while it is normalised
Malformed(tx, symbol) == clean_tx(self, tx, symbol).raised # "none"

\* the Deposits of the records of the first n symbols that normalise, in
\* the order of the history
RECURSIVE DepositsOf(_)
DepositsOf(n) ==
    IF n = 0 THEN <<>>
    ELSE DepositsOf(n - 1) \o
         [i \in 1..Len(SelectSeq(backend.history[self.symbols[n]],
                                 LAMBDA tx : Normalizes(tx, self.symbols[n]))) |->
             Deposit(clean_tx(self,
                              SelectSeq(backend.history[self.symbols[n]],
                                        LAMBDA tx : Normalizes(tx, self.symbols[n]))[i],
                              self.symbols[n]).value[1])]

RECURSIVE RecordsOf(_)
RecordsOf(n) == IF n = 0 THEN 0 ELSE RecordsOf(n - 1) + Len(backend.history[self.symbols[n]])

\* C29: list_txs yields a Deposit for every record that normalises, in the
\* order of the history, however many other records raise, and it ends only
\* after every record of every symbol was examined
C29_MalformedRecordsAreSkipped ==
    caller.gen # <<>> =>
        /\ IsPrefix(Gen.yielded, DepositsOf(Len(self.symbols)))
        /\ Gen.status = "done" =>
              /\ Gen.yielded = DepositsOf(Len(self.symbols))
              /\ Gen.examined = RecordsOf(Len(self.symbols))
        /\ (ret.op = "next" /\ ret.raised \notin {"none", "StopIteration"}) =>
              ret.raised \in {"RPCError", "RPCException"}

\* the iteration ended after it yielded two Deposits around a record that raised
C29_Witness ==
    /\ caller.gen # <<>> /\ Gen.status = "done" /\ Len(Gen.yielded) = 2
    /\ Len(backend.history[self.symbols[1]]) = 3
    /\ Normalizes(backend.history[self.symbols[1]][1], self.symbols[1])
    /\ Malformed(backend.history[self.symbols[1]][2], self.symbols[1])
    /\ Normalizes(backend.history[self.symbols[1]][3], self.symbols[1])

\* wallet sessions open after the first n calls of the session log
RECURSIVE OpenSessions(_)
OpenSessions(n) ==
    IF n = 0 THEN 0
    ELSE OpenSessions(n - 1) + (IF backend.log[n] = "open_wallet" THEN 1 ELSE -1)

\* C30: every wallet session a loader acquires is released: each release
\* follows an acquisition it matches, no session is open once the caller has
\* left every scope of the loader, and none that list_txs opened is open
\* while the generator is suspended
C30_SessionsAreReleased ==
    /\ \A n \in 0..Len(backend.log) : OpenSessions(n) >= 0
    /\ caller.scopes = 0 => OpenSessions(Len(backend.log)) = 0
    /\ caller.scopes > 0 => OpenSessions(Len(backend.log)) <= 1

\* ---------------------------------------------------------------------
\* C31: failures raised inside a scope

\* a scope was left by a failure raised inside it
LeftByFailure == ret.op = "__exit__" /\ ret.within # "none"

\* C31: a failure raised inside the scope of a loader reaches the caller
\* after __exit__ has run, whatever the wallet settings are
C31_ScopeFailuresPropagate == LeftByFailure => ret.raised = ret.within

\* ---------------------------------------------------------------------
\* The normalisers on their own (SpecNormalizer): _clean_tx is applied to
\* one raw record at a time

\* _clean_tx calls in one run
MaxCleanCalls == 1

SYM_TEST == <<"T", "E", "S", "T">>
SYM_test == <<"t", "e", "s", "t">>

\* raw records of a Golos account history
RawGolosTxs ==
    [type_op : {"transfer", "vote"}, from : {"alice", "bob"}, to : {"alice", "bob"},
     trx_id : {<<>>, <<"t1">>},
     amount : {<<"1.500", SYM_TEST>>, <<"1.500", SYM_test>>, <<"1.500", SYM_GOLOS>>,
               <<"garbage">>, <<"1,5", SYM_TEST>>},
     memo : {<<>>, <<"hi">>, <<" hi ">>},
     timestamp : {<<>>, <<"2019-07-01T10:00:00">>, <<"yesterday">>}]

\* raw transfers of a Monero wallet
RawMoneroTxs ==
    [type : {"in", "out"}, txid : {"x1"}, confirmations : DOMAIN IntTexts \cup {"n/a"},
     address : {"4own", "4other"}, suggested_confirmations_threshold : {0, 5, 12},
     decimal_amount : {100000}]

AccountFilters == {<<>>, <<"alice">>, <<"bob">>}
MemoFilters == {<<>>, <<"hi">>, <<"hi ">>, <<"bye">>}
AddressFilters == {NoneAttr, "", "4own"}

\* the loaders whose _clean_tx is applied
Normalizers == {GolosLoader(<<SYM_TEST>>), MoneroLoader("default")}

\* the outcome of one _clean_tx call with its arguments
CleanRet(tx, symbol, account, memo, r) ==
    [op |-> "_clean_tx", tx |-> tx, symbol |-> symbol, account |-> account, memo |-> memo,
     raised |-> r.raised, value |-> r.value]

InitNormalizer ==
    /\ COIN_HANDLERS = InitCatalog
    /\ handlers = <<>>
    /\ handlers_loaded = FALSE
    /\ modules = InitModules
    /\ reloads = 0
    /\ last = NoTrace
    /\ COIN_MAP = InitCoinMap
    /\ COIND_RPC = InitRpc
    /\ calls = 0
    /\ store = <<>>
    /\ environ = EmptyDict
    /\ STORE = EmptyDict
    /\ backend = NoBackend
    /\ caller = NoCaller
    /\ self \in Normalizers
    /\ ret = LdrRet("__init__", "none", <<>>)

GolosCleanTx ==
    /\ self.class = "GolosLoader"
    /\ calls < MaxCleanCalls
    /\ calls' = calls + 1
    /\ \E tx \in RawGolosTxs, symbol \in {SYM_TEST}, account \in AccountFilters,
          memo \in MemoFilters :
            ret' = CleanRet(tx, symbol, account, memo,
                            golos_clean_tx(self, tx, symbol, account, memo))
    /\ UNCHANGED <<self, backend, caller, outside_loader>>

MoneroCleanTx ==
    /\ self.class = "MoneroLoader"
    /\ calls < MaxCleanCalls
    /\ calls' = calls + 1
    /\ \E tx \in RawMoneroTxs, address \in AddressFilters :
            ret' = CleanRet(tx, SYM_XMR, address, <<>>,
                            monero_clean_tx(self, tx, SYM_XMR, address))
    /\ UNCHANGED <<self, backend, caller, outside_loader>>

NextNormalizer ==
    \/ GolosCleanTx
    \/ MoneroCleanTx

SpecNormalizer == InitNormalizer /\ [][NextNormalizer]_vars

\* ---------------------------------------------------------------------
\* C32: what the Golos normaliser keeps

GolosCleaned == ret.op = "_clean_tx" /\ self.class = "GolosLoader"

\* every field _clean_tx reads can be read
WellFormed(tx) ==
    /\ tx.trx_id # <<>>
    /\ Len(tx.amount) = 2 /\ tx.amount[1] \in DOMAIN DecimalTexts
    /\ tx.timestamp # <<>> /\ tx.timestamp[1] \in TimestampTexts

IsTransfer(tx) == tx.type_op = "transfer"
SymbolMatches(tx, symbol) == upper(tx.amount[2]) = upper(symbol)
ToAccount(tx, account) == account = <<>> \/ (tx.to = account[1] /\ tx.from # account[1])
MemoMatches(tx, memo) ==
    memo = <<>> \/ (IF tx.memo = <<>> THEN "" ELSE strip(tx.memo[1])) = strip(memo[1])

Shaped == ret.raised = "none" /\ ret.value # <<>>
NotApplicable == ret.raised = "none" /\ ret.value = <<>>

\* C32 as stated: a well-formed record is shaped exactly when it is a
\* transfer of the loaded symbol (in any case) that passes the account
\* filter, and is not applicable otherwise
C32_ShapedExactlyForOwnTransfers ==
    (GolosCleaned /\ WellFormed(ret.tx)) =>
        /\ Shaped \/ NotApplicable
        /\ Shaped <=> /\ IsTransfer(ret.tx)
                      /\ SymbolMatches(ret.tx, ret.symbol)
                      /\ ToAccount(ret.tx, ret.account)

\* C32: a well-formed record is shaped exactly when it is a transfer of the
\* loaded symbol (in any case) that passes the account filter and the memo
\* filter, and is not applicable otherwise; the shaped record carries the
\* amount, the recipient and the txid of the raw record
C32_ShapedExactlyForFilteredTransfers ==
    (GolosCleaned /\ WellFormed(ret.tx)) =>
        /\ Shaped \/ NotApplicable
        /\ Shaped <=> /\ IsTransfer(ret.tx)
                      /\ SymbolMatches(ret.tx, ret.symbol)
                      /\ ToAccount(ret.tx, ret.account)
                      /\ MemoMatches(ret.tx, ret.memo)
        /\ Shaped => /\ ret.value[1].amount = DecimalTexts[ret.tx.amount[1]]
                     /\ ret.value[1].to_account = ret.tx.to
                     /\ ret.value[1].txid = ret.tx.trx_id[1]

\* the transfer of '1.500 test' from alice to bob, filtered for bob with a
\* memo filter that differs only in white space, gave 1.5 to bob
C32_Witness ==
    /\ GolosCleaned /\ Shaped
    /\ ret.tx.from = "alice" /\ ret.tx.to = "bob" /\ ret.account = <<"bob">>
    /\ ret.tx.amount = <<"1.500", SYM_test>>
    /\ ret.tx.memo = <<" hi ">> /\ ret.memo = <<"hi ">>
    /\ ret.value[1].amount = 150000 /\ ret.value[1].to_account = "bob"
    /\ ret.value[1].txid = "t1"

\* ---------------------------------------------------------------------
\* C33: the confirmation policy of the Monero normaliser

\* _clean_tx was applied to a receive record that passes the address filter
\* and whose confirmation count can be read
ReceiveCleaned ==
    /\ ret.op = "_clean_tx" /\ self.class = "MoneroLoader"
    /\ ret.tx.type = "in"
    /\ ret.account \in {NoneAttr, ""} \/ ret.tx.address = ret.account
    /\ ret.tx.confirmations \in DOMAIN IntTexts

Confs == IntTexts[ret.tx.confirmations]
Trusted == Confs >= ret.tx.suggested_confirmations_threshold
Included == ret.raised = "none" /\ ret.value # <<>>
Excluded == ret.raised = "none" /\ ret.value = <<>>

\* the same record with the confirmation count t
WithConfs(t) == [ret.tx EXCEPT !.confirmations = t]

\* C33: a receive record with at least confirms_needed confirmations is
\* included; one with fewer is included when its confirmations reach the
\* threshold the backend suggests and is excluded otherwise; a record that
\* is included is also included with any larger confirmation count
C33_ConfirmationPolicy ==
    ReceiveCleaned =>
        /\ Included \/ Excluded
        /\ Confs >= self.confirms_needed => Included
        /\ Confs < self.confirms_needed => (Included <=> Trusted)
        /\ Included =>
              \A t \in DOMAIN IntTexts :
                 IntTexts[t] > Confs =>
                    monero_clean_tx(self, WithConfs(t), ret.symbol, ret.account).value # <<>>

\* a record with fewer confirmations than needed that the backend trusts
\* was included
C33_Witness ==
    /\ ReceiveCleaned /\ Included
    /\ Confs < self.confirms_needed /\ Confs = 5
    /\ ret.tx.suggested_confirmations_threshold = 5

\* ---------------------------------------------------------------------
\* GolosLoader.load (SpecLoad): loaders built from lists of coins, some of
\* them without an account, some sharing a native symbol

\* coins given to one constructor
MaxCoins == 3

SYM_GOLOS2 == <<"G", "O", "L", "O", "S", "2">>

\* the native symbol of a coin of the model
NativeOf(symbol) == IF symbol = SYM_GOLOS2 THEN SYM_GOLOS ELSE symbol

LoadCoin(symbol, our_account) ==
    [symbol |-> symbol, symbol_id |-> NativeOf(symbol), our_account |-> our_account]

LoadCoins ==
    {LoadCoin(s, a) : s \in {SYM_GOLOS, SYM_GBG, SYM_GOLOS2}, a \in {NoneAttr, "", "bank"}}

\* lists of coins with pairwise distinct symbols
CoinLists ==
    {cs \in UNION {[1..n -> LoadCoins] : n \in 0..MaxCoins} :
        \A i, j \in DOMAIN cs : i # j => cs[i].symbol # cs[j].symbol}

\* the keys of {key(c): c for c in coins}, in insertion order
RECURSIVE dict_keys(_, _, _)
dict_keys(cs, key, n) ==
    IF n = 0 THEN <<>>
    ELSE IF \E j \in 1..(n - 1) : cs[j][key] = cs[n][key] THEN dict_keys(cs, key, n - 1)
    ELSE Append(dict_keys(cs, key, n - 1), cs[n][key])

\* {key(c): c for c in coins}: a later coin replaces an earlier one of its key
dict_by(cs, key) ==
    [k \in {cs[i][key] : i \in DOMAIN cs} |->
        cs[CHOOSE i \in DOMAIN cs :
              cs[i][key] = k /\ \A j \in DOMAIN cs : j > i => cs[j][key] # k]]

\* BaseLoader.py lines 81-95 and GolosLoader.py lines 20-26
golos_loader(cs) ==
    [class |-> "GolosLoader",
     coins |-> dict_by(cs, "symbol_id"), orig_coins |-> dict_by(cs, "symbol"),
     symbols |-> dict_keys(cs, "symbol_id", Len(cs)),
     orig_symbols |-> dict_keys(cs, "symbol", Len(cs)),
     tx_count |-> 1000, wallet |-> "", wallet_opened |-> FALSE, confirms_needed |-> 0]

\* GolosLoader.py lines 54-58: one turn of the loop over the copy of
\* self.coins: a coin without our_account is deleted from self.coins and
\* its symbol from self.symbols
drop_unaccounted(me, symbol) ==
    IF ~empty_str(me.coins[symbol].our_account) THEN me
    ELSE [me EXCEPT !.coins = [k \in DOMAIN @ \ {symbol} |-> @[k]],
                    !.symbols = SelectSeq(@, LAMBDA x : x # symbol)]

RECURSIVE load_loop(_, _, _)
load_loop(me, keys, i) ==
    IF i > Len(keys) THEN me ELSE load_loop(drop_unaccounted(me, keys[i]), keys, i + 1)

\* GolosLoader.py lines 47-58: load(tx_count); the keys of the copy are those
\* of self.coins, which self.symbols lists in insertion order
load(me, tx_count) == load_loop([me EXCEPT !.tx_count = tx_count], me.symbols, 1)

TxCounts == {1000, 10}

\* every account history holds one transfer to the account "bank"
LoadBackend ==
    LoaderBackend([s \in {SYM_GOLOS, SYM_GBG} |->
                      <<GolosTx("transfer", "alice", <<"t1">>, <<"1.000", s>>)>>])

InitLoad ==
    /\ COIN_HANDLERS = InitCatalog
    /\ handlers = <<>>
    /\ handlers_loaded = FALSE
    /\ modules = InitModules
    /\ reloads = 0
    /\ last = NoTrace
    /\ COIN_MAP = InitCoinMap
    /\ COIND_RPC = InitRpc
    /\ calls = 0
    /\ store = <<>>
    /\ environ = EmptyDict
    /\ STORE = EmptyDict
    /\ \E cs \in CoinLists : self = golos_loader(cs)
    /\ backend = LoadBackend
    /\ caller = NoCaller
    /\ ret = LdrRet("__init__", "none", <<>>)

\* load(tx_count) is called; not while a generator of list_txs is suspended
Load ==
    /\ calls < MaxLoaderCalls
    /\ calls' = calls + 1
    /\ ~(caller.gen # <<>> /\ caller.gen[1].status = "suspended")
    /\ \E tx_count \in TxCounts :
          /\ self' = load(self, tx_count)
          /\ ret' = [op |-> "load", raised |-> "none", value |-> <<tx_count>>, was |-> self]
    /\ caller' = [caller EXCEPT !.loaded = TRUE]
    /\ UNCHANGED <<backend, outside_loader>>

NextLoad ==
    \/ Load
    \/ ListTxs
    \/ NextDeposit
    \/ Abandon

SpecLoad == InitLoad /\ [][NextLoad]_vars

\* ---------------------------------------------------------------------
\* C34: what load() keeps

JustLoaded == ret.op = "load"

Values(f) == {f[k] : k \in DOMAIN f}
Listed(q) == {q[i] : i \in DOMAIN q}

\* the coins the loader was constructed with that have an account
WithAccount == {c \in Values(self.orig_coins) : ~empty_str(c.our_account)}

\* load again leaves the symbols and the coins as they are
LoadIsIdempotent ==
    \A tx_count \in TxCounts :
        /\ load(self, tx_count).symbols = self.symbols
        /\ load(self, tx_count).coins = self.coins

\* C34: load() does not raise; after it the symbols and the coins of the
\* loader are exactly the coins it was constructed with that have a
\* non-empty our_account, and a further load changes neither
C34_LoadKeepsCoinsWithAccount ==
    JustLoaded =>
        /\ ret.raised = "none"
        /\ Values(self.coins) = WithAccount
        /\ Listed(self.symbols) = {c.symbol_id : c \in WithAccount}
        /\ LoadIsIdempotent

\* the coins the loader was constructed with, in the order given (their
\* symbols are pairwise distinct, so orig_symbols lists them all)
Constructed == [i \in DOMAIN self.orig_symbols |-> self.orig_coins[self.orig_symbols[i]]]

\* the coin the constructor mapped to each native symbol: the last one given
Mapped == dict_by(Constructed, "symbol_id")

\* what load() does keep: it does not raise; after it the coin map holds
\* exactly the native symbols whose mapped coin has a non-empty our_account,
\* the symbols list holds the same native symbols in construction order,
\* and a further load with any tx_count changes neither
LoadKeepsMappedCoins ==
    JustLoaded =>
        /\ ret.raised = "none"
        /\ self.coins = [k \in {x \in DOMAIN Mapped : ~empty_str(Mapped[x].our_account)} |->
                            Mapped[k]]
        /\ self.symbols = SelectSeq(dict_keys(Constructed, "symbol_id", Len(Constructed)),
                                    LAMBDA x : x \in DOMAIN self.coins)
        /\ self.tx_count = ret.value[1]
        /\ LoadIsIdempotent

\* a second load with another tx_count on a loader built from three coins,
\* of which one native symbol was kept and one was dropped
LoadedTwice ==
    /\ JustLoaded /\ calls = 2 /\ ret.was.tx_count # self.tx_count
    /\ Len(self.orig_symbols) = 3 /\ Len(self.symbols) = 1
    /\ ret.was.symbols = self.symbols

\* ---------------------------------------------------------------------
\* C35: list_txs and load

\* C35: a generator of list_txs never asks the backend for the history of a
\* coin without an account, which load() removes, whether or not load() was
\* called before
C35_ListTxsAsksOnlyForLoadedCoins ==
    caller.gen # <<>> =>
        \A i \in DOMAIN caller.gen[1].queried : ~empty_str(caller.gen[1].queried[i].account)

\* ---------------------------------------------------------------------
\* C36: the ids of the stored KeyPairs

\* set() without an id gives the KeyPair appended at position p the id p
\* (len(self.store) + 1), and no KeyPair is ever removed or moved
AssignedId(p) == p

\* C36: the ids of the stored KeyPairs are pairwise distinct and each
\* KeyPair carries the id it was given when it was inserted
C36_IdsDistinctAndStable ==
    /\ \A p, q \in DOMAIN store : p # q => store[p].id # store[q].id
    /\ \A p \in DOMAIN store : store[p].id = AssignedId(p)

\* ---------------------------------------------------------------------
\* The registry and the configuration functions together (SpecConfig):
\* reload_handlers, the accessors, enable_handler / disable_handler,
\* add_handler_coin, handler_has_coin, configure_coin and configure_handler

\* lines 288-300: COIN_HANDLERS[handler] = {**COIN_HANDLERS[handler], **config_opts}
configure_handler(ch, handler, opts) ==
    IF handler \notin HandlerNamesOf(ch) THEN [catalog |-> ch, raised |-> "KeyError"]
    ELSE [catalog |-> [i \in 1..Len(ch) |->
                          IF ch[i].name = handler
                          THEN [ch[i] EXCEPT !.conf = dict_merge(@, opts)] ELSE ch[i]],
          raised |-> "none"]

\* the configuration calls of one run
MaxConfigCalls == 2

\* a catalog in the layout of lines 164-194
ConfigCatalog ==
    << [name |-> "Bitcoin",
        conf |-> [enabled |-> TRUE, coins |-> <<CoinObj(1, SYM_BTC)>>, kwargs |-> EmptyDict]],
       [name |-> "Golos",
        conf |-> [enabled |-> FALSE, coins |-> <<CoinObj(2, SYM_GOLOS)>>, kwargs |-> EmptyDict]] >>

\* Monero/__init__.py lines 99 and 126-129: reload() and both exports, as
\* Bitcoin and Golos
ConfigModules ==
    [n \in {"Bitcoin", "Golos", "Monero"} |->
        [exports |-> {"loader", "manager"}, has_reload |-> TRUE]]

\* the handler names the configuration functions are called with: one of
\* the catalog, one that is not in it
ConfigHandlerArgs == {"Bitcoin", "Monero"}

\* the options configure_handler is called with
HandlerOpts == {[k \in {"enabled"} |-> FALSE], [k \in {"coins"} |-> <<>>]}

\* the arguments add_handler_coin is called with
ConfigCoinArgs(cmap) ==
    {[kind |-> "Coin", coin |-> current(cmap, CoinObj(4, SYM_DOGE))]}
        \cup {[kind |-> "str", sym |-> s] : s \in {SYM_btc, SYM_DOGE}}

InitConfig ==
    /\ COIN_HANDLERS = ConfigCatalog
    /\ handlers = <<>>
    /\ handlers_loaded = FALSE
    /\ modules = ConfigModules
    /\ reloads = 0
    /\ last = NoTrace
    /\ ret = Ret("import", None, Returns(NoValue), 0, FALSE)
    /\ COIN_MAP = InitCoinMap
    /\ COIND_RPC = InitRpc
    /\ calls = 0
    /\ store = <<>>
    /\ environ = EmptyDict
    /\ self = BareHandler
    /\ backend = NoBackend
    /\ caller = NoCaller
    /\ STORE = EmptyDict

\* enable_handler or disable_handler with one name
ToggleReturn(op, r) ==
    /\ calls < MaxConfigCalls
    /\ calls' = calls + 1
    /\ COIN_HANDLERS' = r.catalog
    /\ ret' = CfgRet(op, NoValue, NoValue, r.raised, NoValue)
    /\ UNCHANGED <<COIN_MAP, COIND_RPC, outside_settings>>

ConfigToggle ==
    \E h \in {"Bitcoin", "Golos", "Monero"} :
        \/ ToggleReturn("enable_handler", enable_handler(COIN_HANDLERS, <<h>>))
        \/ ToggleReturn("disable_handler", disable_handler(COIN_HANDLERS, <<h>>))

ConfigAddHandlerCoin ==
    /\ calls < MaxConfigCalls
    /\ \E handler \in ConfigHandlerArgs : \E arg \in ConfigCoinArgs(COIN_MAP) :
        AddHandlerCoinReturn(handler, arg,
                             add_handler_coin(COIN_HANDLERS, COIN_MAP, handler, arg))

ConfigHandlerHasCoin ==
    /\ calls < MaxConfigCalls
    /\ \E handler \in ConfigHandlerArgs : \E symbol \in {SYM_btc} :
        HandlerHasCoinReturn(handler, symbol, handler_has_coin(COIN_HANDLERS, handler, symbol))

ConfigConfigureCoin ==
    /\ calls < MaxConfigCalls
    /\ \E symbol \in {SYM_btc, SYM_DOGE} : \E opts \in {[k \in {"can_issue"} |-> TRUE]} :
        ConfigureCoinReturn(symbol, opts,
                            configure_coin(COIND_RPC, COIN_MAP, COIN_HANDLERS, symbol, opts))

ConfigureHandlerReturn(handler, opts, r) ==
    /\ calls < MaxConfigCalls
    /\ calls' = calls + 1
    /\ COIN_HANDLERS' = r.catalog
    /\ ret' = CfgRet("configure_handler", handler, opts, r.raised, NoValue)
    /\ UNCHANGED <<COIN_MAP, COIND_RPC, outside_settings>>

ConfigureHandler ==
    \E handler \in ConfigHandlerArgs : \E opts \in HandlerOpts :
        ConfigureHandlerReturn(handler, opts, configure_handler(COIN_HANDLERS, handler, opts))

\* an accessor is called
ConfigLookup == \E op \in AccessorOps : \E s \in {SYM_BTC, SYM_DOGE} : Accessor(op, s)

NextConfig ==
    \/ ReloadHandlers
    \/ ConfigLookup
    \/ ConfigToggle
    \/ ConfigAddHandlerCoin
    \/ ConfigHandlerHasCoin
    \/ ConfigConfigureCoin
    \/ ConfigureHandler

SpecConfig == InitConfig /\ [][NextConfig]_vars

\* the configuration functions of claim C37
ConfigOps == {"enable_handler", "disable_handler", "add_handler_coin", "configure_coin",
              "configure_handler"}

\* what accessor `op` answers for `symbol` when called with these globals
Answer(op, symbol, ch, loaded, idx) ==
    after_reload(op, symbol, auto_reload(ch, modules, loaded, idx, reloads + 1, NoPlan, last))

SameAnswer(a, b) == a.raised = b.raised /\ (a.raised = "none" => a.value = b.value)

\* a step of one of the configuration functions, taken after a reload completed
ConfiguresLoaded == handlers_loaded /\ calls' = calls + 1 /\ ret'.op \in ConfigOps

LookupsUnchanged ==
    /\ handlers' = handlers
    /\ handlers_loaded' = handlers_loaded
    /\ \A op \in AccessorOps : \A s \in {SYM_BTC, SYM_GOLOS, SYM_DOGE, None} :
        (op \in {"get_loaders", "get_managers"} \/ s # None)
            => SameAnswer(Answer(op, s, COIN_HANDLERS, handlers_loaded, handlers),
                          Answer(op, s, COIN_HANDLERS', handlers_loaded', handlers'))

Reloaded == reload_handlers(COIN_HANDLERS, modules, handlers_loaded, handlers, reloads + 1, NoPlan)

CallsUnknownHandler ==
    /\ calls' = calls + 1
    /\ ret'.op \in {"handler_has_coin", "add_handler_coin"}
    /\ ret'.handler \notin HandlerNamesOf(COIN_HANDLERS)

\* the handlers a reload of catalog ch tries to import, whatever goes wrong
Attempted(ch, plan) ==
    reload_handlers(ch, modules, handlers_loaded, handlers, reloads + 1, plan).trace.imported
        \cup reload_handlers(ch, modules, handlers_loaded, handlers, reloads + 1, plan).trace.failed

\* the coin list the created entry is to hold
CreatedCoins(r) ==
    IF r.op = "handler_has_coin" THEN <<>>
    ELSE IF r.arg.kind = "Coin" THEN <<r.arg.coin>> ELSE <<COIN_MAP[upper(r.arg.sym)]>>

\* the entry of handler h was created enabled, with these coins
Created(ch, h, coins) ==
    /\ h \in HandlerNamesOf(ch)
    /\ ConfOf(ch, h).enabled = TRUE
    /\ ConfOf(ch, h).coins = coins
    /\ enable_handler(ch, <<h>>).raised = "none"
    /\ \A plan \in Plans(ch) : h \in Attempted(enable_handler(ch, <<h>>).catalog, plan)

UnknownBareSymbol(r) ==
    r.op = "add_handler_coin" /\ r.arg.kind = "str" /\ upper(r.arg.sym) \notin DOMAIN COIN_MAP

\* C39: handler_has_coin and add_handler_coin do not fail for a handler
\* name outside the catalog: they create its entry, enabled, with an empty
\* coin list (handler_has_coin) or the coin (add_handler_coin), so that
\* enable_handler succeeds and the next reload tries the handler; when
\* add_handler_coin raises TokenNotFound for an unknown bare symbol, the
\* catalog and the symbol map stay as they were
C39_UnknownHandlerIsCreated ==
    [][CallsUnknownHandler =>
          IF UnknownBareSymbol(ret')
          THEN /\ ret'.raised = "TokenNotFound"
               /\ COIN_HANDLERS' = COIN_HANDLERS
               /\ COIN_MAP' = COIN_MAP
          ELSE /\ ret'.raised = "none"
               /\ Created(COIN_HANDLERS', ret'.handler, CreatedCoins(ret'))]_vars

\* a reload imported the handler that add_handler_coin created, and filed
\* its coin in the index
C39_Witness ==
    /\ "Monero" \notin HandlerNamesOf(ConfigCatalog)
    /\ "Monero" \in HandlerNamesOf(last.catalog)
    /\ "Monero" \in last.imported
    /\ ConfOf(last.catalog, "Monero").coins # <<>>
    /\ \E i \in 1..Len(handlers) : \E j \in 1..Len(handlers[i].managers) :
        handlers[i].managers[j].handler = "Monero"

\* the handler as it was when the last _prep_settings was called
Given == ret.given

\* the Coin objects a handler holds
CoinsOf(me) == IF "coins" \in DOMAIN me THEN me.coins ELSE <<me.coin>>

\* C38: _prep_settings, with its defaults and casts, leaves the settings
\* map handed to the handler and every Coin as they were: the entries of
\* COIND_RPC are the same after the call as before it
C38_PrepSettingsLeavesInputs ==
    Prepped => /\ self.allsettings = Given.allsettings
               /\ CoinsOf(self) = CoinsOf(Given)

\* _prep_settings computed a map whose entry for a symbol is not the entry
\* COIND_RPC holds: defaults were filled in, values were cast
C38_Witness ==
    /\ Prepped
    /\ ~ret.cached
    /\ ret.raised = "none"
    /\ COIND_RPC_KEY \in DOMAIN self.allsettings
    /\ SYM_BTC \in DOMAIN self.allsettings[COIND_RPC_KEY]
    /\ "port" \in DOMAIN self.allsettings[COIND_RPC_KEY][SYM_BTC]
    /\ SYM_BTC \in DOMAIN self._settings
    /\ "host" \in DOMAIN self._settings[SYM_BTC]
    /\ "host" \notin DOMAIN self.allsettings[COIND_RPC_KEY][SYM_BTC]
    /\ self._settings[SYM_BTC].port # self.allsettings[COIND_RPC_KEY][SYM_BTC].port

\* ---------------------------------------------------------------------
\* C40: MoneroManager.send, read from the outcome of the call

MoneroSending == ret.op = "MoneroManager.send"

\* the calls of simple_transfer the wallet received
SimpleTransfers == {i \in DOMAIN ret.trace : ret.trace[i][1] = "simple_transfer"}

\* the wallet answered validate_address for the destination
Validated ==
    /\ Len(ret.trace) >= 1
    /\ ret.trace[1] = <<"validate_address", ret.args.address>>
    /\ ret.args.fault.at # 1

\* what the wallet did with the transfer it was handed
Answered == simple_transfer(ret.was, ret.args.amount, ret.args.address, ret.args.fault)

\* the transfer was handed to the wallet and failed with this exception
TransferFailure == Answered.failed[1]

\* C40: MoneroManager.send hands the transfer to the wallet only after the
\* wallet found the destination address valid; an invalid destination, found
\* by the validation or reported by the transfer as a wrong address, raises
\* AccountNotFound, a 'not enough money' failure of the transfer raises
\* NotEnoughBalance, every other failure of the backend is raised as it is,
\* and a record is returned only when the transfer succeeded
C40_MoneroSendOutcomes ==
    MoneroSending =>
        /\ SimpleTransfers # {} =>
              /\ Validated
              /\ ret.args.address \in ret.was.valid
              /\ SimpleTransfers = {2}
              /\ ret.transfer[1].address = ret.args.address
              /\ ret.transfer[1].amount = ret.args.amount
        /\ (Validated /\ ret.args.address \notin ret.was.valid) =>
              ret.raised = "AccountNotFound" /\ SimpleTransfers = {}
        /\ (Len(ret.trace) >= 1 /\ ret.args.fault.at = 1) =>
              /\ ret.raised = BackendError(ret.args.fault.error).class
              /\ ret.text = ret.args.fault.error
              /\ SimpleTransfers = {}
        /\ (SimpleTransfers # {} /\ Answered.failed # <<>>) =>
              IF TransferFailure.class = "RPCException" /\ wrong_address(TransferFailure.text)
              THEN ret.raised = "AccountNotFound"
              ELSE IF TransferFailure.class = "RPCException"
                      /\ TransferFailure.text \in {"not enough money", "Not enough money"}
              THEN ret.raised = "NotEnoughBalance"
              ELSE ret.raised = TransferFailure.class /\ ret.text = TransferFailure.text
        /\ ret.raised = "none" <=> (SimpleTransfers # {} /\ Answered.failed = <<>>)
        /\ ret.raised = "none" =>
              /\ ret.value.txid = Answered.snd[1].tx_hash
              /\ ret.value.amount = ret.args.amount
              /\ backend.balance = ret.was.balance - ret.args.amount - TxFee
              /\ backend.balance >= 0

\* the wallet refused a validated transfer for lack of money and send raised
\* NotEnoughBalance
C40_Witness ==
    /\ MoneroSending
    /\ SimpleTransfers = {2}
    /\ Answered.failed # <<>>
    /\ TransferFailure.text = "Not enough money"
    /\ ret.raised = "NotEnoughBalance"

=============================================================================
